---- MODULE Spec2Model ----
(***************************************************************************)
(* A model of xrpc: the method registry, the dispatcher (Server.call), the *)
(* TCP connection loop (Server.serveConn) and the client (Client.Call).    *)
(*                                                                         *)
(* A Go string is a sequence of tokens.  The token "." is the one-rune     *)
(* string "."; every other token is a piece of text that holds no '.'.     *)
(* Concatenation is \o, so "Int.Sum" is <<"Int", ".", "Sum">>.             *)
(***************************************************************************)
EXTENDS Integers, Sequences, FiniteSets, TLC

VARIABLES
    codec,      \* Server.codec: "gob" or "json"
    m,          \* Server.m: service name -> service record
    regRet,     \* what the latest Register or RegisterName was given and
                \* what it returned
    reqs,       \* Server.call: the request list it was given
    replies,    \* Server.call: the reply list it builds
    idx,        \* Server.call: position of the range loop (1-based)
    callPc,     \* Server.call: "idle", "loop", "returned" or "panicked"
    locals,     \* Server.call: serviceName, methodName, err of the latest pass
    calls,      \* handler invocations made by the running call (service.call)
    connPc,     \* Server.serveConn: "none", "read", "call", "write", or
                \* "returned" when the function has returned
    srvConn,    \* the server's end of the connection: "none", "open", "closed"
    resps,      \* Server.serveConn: its variable resps
    recv,       \* Server.serveConn: the frame it read last (n: how many it has
                \* read, parseFailed: ReadRequest returned an error for it,
                \* afterErr: the frame written for the frame before it held
                \* an error response)
    sent,       \* the connection: the response frame written last (n: how
                \* many WriteTCP calls were made, for: the frame it answers,
                \* body: its body, ok: WriteTCP returned nil)
    tcpConn,    \* Client: its field tcpConn, NilConn or the connection that
                \* the k-th net.Dial call returned
    dials,      \* net.Dial calls made by the client
    cliOp,      \* the client's latest operation: "none", "call" or "batch"
    cliReqs,    \* the requests of the client's latest operation
    cliReplyT,  \* the type of the argument reply of that operation
    cliPc,      \* Client.Call: "idle", "select", "read", "done", "panicked"
    expired,    \* Client.callTcp: timeoutCtx is done
    wire,       \* the client's connection: NoTraffic, RequestSent, Silent
                \* (it stays open and the server will not answer), Broken,
                \* ClosedConn (the client has closed it)
                \* or the response frame's body
    cliResps,   \* Client.Call: its variable resps
    callErr,    \* Client.Call, Client.CallBatch: the error the latest one to
                \* return has returned
    replyVal,   \* Client.Call: the value its argument reply points to
    nCalls,     \* Client.Call: calls made
    closeSt,    \* Client.Close: what the calls made of it have done: "none"
                \* (there was no call), "noop" (there was no connection),
                \* "closed" (the connection the client holds was closed)
    httpPc,     \* Server.ServeHTTP: "idle", "call" (inside s.call) or "done"
    httpReq,    \* the HTTP request being served: its method, whether its
                \* body can be read, and the body
    httpResp,   \* what ServeHTTP wrote for it: the status and the body
    httpDecoded, \* ServeHTTP has handed the request's body to ReadRequest
    codecCall,  \* the codec function a caller has applied last: its name
                \* (op), its arguments and what it returned
    running,    \* Server.call: the index of the request whose handler
                \* method has been entered and has not returned, or 0
    mapWrite,   \* Server.RegisterName: the assignment to a stored service's
                \* method map that is under way, or NoWrite
    lookup,     \* Server.call: the service whose method map the pass at idx
                \* is reading, or NoLookup
    otherConn,  \* ServeTCP: a second connection and the goroutine that serves
                \* it: "none", "serving", "returned" or "panicked"
    panicVal    \* the value of the last panic raised under Server.call:
                \* "none", "error" (a runtime.Error) or "string"

srvVars  == <<codec, m, regRet>>
callVars == <<reqs, replies, idx, callPc, locals, calls>>
connVars == <<connPc, srvConn, resps, recv, sent>>
cliVars  == <<tcpConn, dials, cliOp, cliReqs, cliReplyT, cliPc, expired, wire, cliResps, callErr,
              replyVal, nCalls, closeSt>>
httpVars == <<httpPc, httpReq, httpResp, httpDecoded>>
raceVars == <<mapWrite, lookup>>
vars     == <<codec, m, regRet, reqs, replies, idx, callPc, locals, calls,
              connPc, srvConn, resps, recv, sent,
              tcpConn, dials, cliOp, cliReqs, cliReplyT, cliPc, expired, wire,
              cliResps, callErr, replyVal, nCalls, closeSt,
              httpPc, httpReq, httpResp, httpDecoded, codecCall, running,
              mapWrite, lookup, otherConn, panicVal>>

(***************************************************************************)
(* Bounds of the model.                                                    *)
(***************************************************************************)
MaxBatch == 2       \* longest request list handed to Server.call
MaxMethodLen == 5   \* longest method string (in tokens) of MethodSpec
MaxFrames == 2      \* frames read on the connection of ConnSpec
MaxCalls == 2       \* calls the client of ClientSpec makes
MaxParams == 2      \* longest params array handed to ReadRequestBody

(***************************************************************************)
(* err.go: the protocol error codes.                                       *)
(***************************************************************************)
Success == 0
ParseErr == -32700
InvalidRequest == -32600
MethodNotFound == -32601
InvalidParamErr == -32602
InternalErr == -32603

(***************************************************************************)
(* Strings.                                                                *)
(***************************************************************************)
Dot == "."
UpperTokens == {"Int", "Sum", "Div", "Inc", "Ratio", "Nope", "Args", "Mix", "Good",
                "ByValue", "OneIn", "SecretArg", "ValueReply", "SecretReply", "TwoOut",
                "NoErr", "Neg"}
LowerTokens == {"int", "sum", "secret", "hidden"}

\* strings.Count(s, "."): the tokens that are "."
Count(s, sep) == Cardinality({i \in DOMAIN s : s[i] = sep})

\* strings.LastIndex(s, "."), 1-based; 0 stands for Go's -1
LastIndex(s, sep) ==
    IF \E i \in DOMAIN s : s[i] = sep
    THEN CHOOSE i \in DOMAIN s : s[i] = sep /\ \A k \in DOMAIN s : s[k] = sep => k <= i
    ELSE 0

isExportedAnyName(name) == TRUE

\* isExported: the first rune is upper case (false for "")
isExported(name) == name # <<>> /\ Head(name) \in UpperTokens

(***************************************************************************)
(* parseFromRPCMethod.  err = TRUE stands for a non-nil error, whose text  *)
(* is msg.                                                                 *)
(***************************************************************************)
IllFormed(reqMethod) ==
    [err |-> TRUE, serviceName |-> <<>>, methodName |-> <<>>,
     msg |-> <<"rpc: service/method request ill-formed: ">> \o reqMethod]

parseFromRPCMethodSplitFirst(reqMethod) ==
    IF Count(reqMethod, Dot) = 0
    THEN IllFormed(reqMethod)
    ELSE LET dot == CHOOSE i \in DOMAIN reqMethod :
                        reqMethod[i] = Dot /\ \A k \in 1..(i - 1) : reqMethod[k] # Dot
         IN  [err |-> FALSE,
              serviceName |-> SubSeq(reqMethod, 1, dot - 1),
              methodName |-> SubSeq(reqMethod, dot + 1, Len(reqMethod)),
              msg |-> <<>>]

parseFromRPCMethod(reqMethod) ==
    IF Count(reqMethod, Dot) # 1
    THEN IllFormed(reqMethod)
    ELSE LET dot == LastIndex(reqMethod, Dot)
         IN  IF dot < 1
             THEN IllFormed(reqMethod)
             ELSE [err |-> FALSE,
                   serviceName |-> SubSeq(reqMethod, 1, dot - 1),
                   methodName |-> SubSeq(reqMethod, dot + 1, Len(reqMethod)),
                   msg |-> <<>>]

(***************************************************************************)
(* Go types and values, as reflection shows them.                          *)
(***************************************************************************)
TInt     == [kind |-> "int", name |-> <<"int">>, pkgPath |-> ""]
TFloat64 == [kind |-> "float64", name |-> <<"float64">>, pkgPath |-> ""]
TArgs    == [kind |-> "struct", name |-> <<"Args">>, pkgPath |-> "main"]
TSecret  == [kind |-> "struct", name |-> <<"secret">>, pkgPath |-> "main"]
PtrTo(t) == [kind |-> "ptr", name |-> <<>>, pkgPath |-> "", elem |-> t]
SliceOf(t) == [kind |-> "slice", name |-> <<>>, pkgPath |-> "", elem |-> t]

IntVal(n)    == [t |-> "int", v |-> n]
ArgsVal(a, b) == [t |-> "Args", a |-> a, b |-> b]
FloatVal(n)  == [t |-> "float64", v |-> n]
FloatInf     == [t |-> "float64", inf |-> TRUE]
BigInt(over) == [t |-> "bigint", over |-> over]  \* the int 2^53 + over, 0 <= over < 2^53
SliceVal(s)  == [t |-> "slice", items |-> s]

\* reflect.New(t).Elem(): the zero value of a type
Zero(t) ==
    CASE t.kind = "int" -> IntVal(0)
      [] t.kind = "float64" -> FloatVal(0)
      [] t.kind = "struct" -> ArgsVal(0, 0)
      [] t.kind = "slice" -> SliceVal(<<>>)

(***************************************************************************)
(* Payload bytes.  JSON text is its value; gob bytes are the value with    *)
(* its type, GobGarbage is a byte string that is no gob stream and         *)
(* GobEmpty is the nil byte slice.                                         *)
(***************************************************************************)
JNull      == [j |-> "null"]
JNum(n)    == [j |-> "num", n |-> n]
JStr       == [j |-> "str"]
JObj(a, b) == [j |-> "obj", a |-> a, b |-> b]
JArr(s)    == [j |-> "arr", items |-> s]
JInf       == [j |-> "inf"]     \* a float json.Marshal refuses (+Inf)
JBig(over) == [j |-> "big", over |-> over]   \* the number 2^53 + over

GobOf(v)   == [g |-> "value", v |-> v]
GobGarbage == [g |-> "garbage"]
GobEmpty   == [g |-> "empty"]

\* json.Marshal of a Go value
ToJSON(v) ==
    CASE v.t = "int" -> JNum(v.v)
      [] v.t = "Args" -> JObj(v.a, v.b)
      [] v.t = "float64" -> IF "inf" \in DOMAIN v THEN JInf ELSE JNum(v.v)
      [] v.t = "bigint" -> JBig(v.over)

\* float64(2^53 + over): between 2^53 and 2^54 the float64 values are the
\* even integers; a tie goes to the one whose mantissa is even
Float64OfBig(over) ==
    IF over % 2 = 0 THEN over
    ELSE IF (over + 1) % 4 = 0 THEN over + 1 ELSE over - 1

\* what json decoding into an interface{} keeps of a value (a number
\* becomes a float64), as json.Marshal writes it again
RECURSIVE jsonGeneric(_)
jsonGeneric(data) ==
    CASE data.j = "big" -> JBig(Float64OfBig(data.over))
      [] data.j = "arr" -> JArr([i \in DOMAIN data.items |-> jsonGeneric(data.items[i])])
      [] OTHER -> data

\* jsonCodec.decode(data, out) for a pointer out to a value of type t:
\* null leaves the zero value, a value of another shape is an error
RECURSIVE jsonDecode(_, _)
jsonDecode(data, t) ==
    CASE data.j = "null" -> [st |-> "ok", v |-> Zero(t)]
      [] data.j = "num" /\ t.kind = "int" -> [st |-> "ok", v |-> IntVal(data.n)]
      [] data.j = "num" /\ t.kind = "float64" -> [st |-> "ok", v |-> FloatVal(data.n)]
      [] data.j = "big" /\ t.kind = "int" -> [st |-> "ok", v |-> BigInt(data.over)]
      [] data.j = "obj" /\ t.kind = "struct" -> [st |-> "ok", v |-> ArgsVal(data.a, data.b)]
      [] data.j = "arr" /\ t.kind = "slice" ->
            IF \A i \in DOMAIN data.items : jsonDecode(data.items[i], t.elem).st = "ok"
            THEN [st |-> "ok",
                  v |-> SliceVal([i \in DOMAIN data.items |->
                                     jsonDecode(data.items[i], t.elem).v])]
            ELSE [st |-> "err"]
      [] OTHER -> [st |-> "err"]

\* gobCodec.Decode(data, out) for a pointer out to a value of type t
gobDecode(data, t) ==
    IF data.g = "value" /\ data.v.t = (IF t.kind = "struct" THEN "Args" ELSE t.kind)
    THEN [st |-> "ok", v |-> data.v]
    ELSE [st |-> "err"]

(***************************************************************************)
(* ReadRequestBody(reqBody, out).  out is a pointer to a t (outIsPtr) or a *)
(* plain t.  The result is "ok" with the decoded value, "err", or "panic". *)
(***************************************************************************)
jsonReadRequestBody(data, t, outIsPtr) ==
    IF data.j = "null"
    THEN [st |-> "panic"]                       \* reflect.TypeOf(nil).Kind()
    ELSE LET unwrap == data.j = "arr" /\ t.kind # "slice"
         IN  IF unwrap /\ Len(data.items) = 0
             THEN [st |-> "panic"]              \* args[0] of an empty slice
             ELSE LET inner == IF unwrap THEN data.items[1] ELSE data
                  IN  IF outIsPtr THEN jsonDecode(inner, t) ELSE [st |-> "err"]

gobReadRequestBody(data, t, outIsPtr) ==
    IF outIsPtr THEN gobDecode(data, t) ELSE [st |-> "err"]

ReadRequestBody(c, data, t, outIsPtr) ==
    IF c = "json" THEN jsonReadRequestBody(data, t, outIsPtr)
    ELSE gobReadRequestBody(data, t, outIsPtr)

(***************************************************************************)
(* Responses: defaultResponse{Reply, Err, ErrCode, Id} and                 *)
(* jsonResponse{ID, Err, Result}.                                          *)
(***************************************************************************)
NoResult(c) == IF c = "json" THEN JNull ELSE GobEmpty

ErrResponse(c, errCode, errMsg) ==
    [id |-> <<>>, errCode |-> errCode, errMsg |-> errMsg, result |-> NoResult(c)]

NewResponse(c, data) ==
    [id |-> <<>>, errCode |-> Success, errMsg |-> <<>>,
     result |-> IF c = "json" THEN ToJSON(data) ELSE GobOf(data)]

SetReqId(resp, id) == [resp EXCEPT !.id = id]

\* the reply slot of a request the loop has not reached
NilResponse == [id |-> <<>>, errCode |-> Success, errMsg |-> <<>>, result |-> [nil |-> TRUE]]

(***************************************************************************)
(* Handler objects (inputs of Register) as reflection shows them: the      *)
(* value, the type name of the receiver and its methods.  fn names what    *)
(* the method does.                                                        *)
(***************************************************************************)
Method(name, pkgPath, numIn, in1, in2, numOut, out0, fn) ==
    [name |-> name, pkgPath |-> pkgPath, numIn |-> numIn, in1 |-> in1, in2 |-> in2,
     numOut |-> numOut, out0 |-> out0, fn |-> fn]

IntHandler ==
    [val |-> "main.Int", typeName |-> <<"Int">>,
     methods |-> {
        Method(<<"Sum">>, "", 3, PtrTo(TArgs), PtrTo(TInt), 1, "error", "Sum"),
        Method(<<"Div">>, "", 3, PtrTo(TArgs), PtrTo(TInt), 1, "error", "Div"),
        Method(<<"Inc">>, "", 3, TInt, PtrTo(TInt), 1, "error", "Inc"),
        Method(<<"Ratio">>, "", 3, PtrTo(TArgs), PtrTo(TFloat64), 1, "error", "Ratio"),
        Method(<<"sum">>, "main", 3, PtrTo(TArgs), PtrTo(TInt), 1, "error", "Sum")}]

LowerHandler ==
    [val |-> "main.int", typeName |-> <<"int">>,
     methods |-> {Method(<<"Sum">>, "", 3, PtrTo(TArgs), PtrTo(TInt), 1, "error", "Sum")}]

Handlers == {IntHandler, LowerHandler}

\* a handler of another package whose type is named Int as well
OtherIntHandler ==
    [val |-> "other.Int", typeName |-> <<"Int">>,
     methods |-> {
        Method(<<"Sum">>, "", 3, PtrTo(TArgs), PtrTo(TFloat64), 1, "error", "Ratio"),
        Method(<<"Neg">>, "", 3, TInt, PtrTo(TInt), 1, "error", "Inc")}]

\* a handler of an unnamed struct type
AnonHandler ==
    [val |-> "struct{}", typeName |-> <<>>,
     methods |-> {}]

\* a handler with methods of every signature suitableMethod turns down
MixHandler ==
    [val |-> "main.Mix", typeName |-> <<"Mix">>,
     methods |-> {
        Method(<<"Good">>, "", 3, PtrTo(TArgs), PtrTo(TInt), 1, "error", "Sum"),
        Method(<<"ByValue">>, "", 3, TArgs, PtrTo(TInt), 1, "error", "Sum"),
        Method(<<"OneIn">>, "", 2, PtrTo(TArgs), PtrTo(TInt), 1, "error", "Sum"),
        Method(<<"SecretArg">>, "", 3, PtrTo(TSecret), PtrTo(TInt), 1, "error", "Sum"),
        Method(<<"ValueReply">>, "", 3, PtrTo(TArgs), TInt, 1, "error", "Sum"),
        Method(<<"SecretReply">>, "", 3, PtrTo(TArgs), PtrTo(TSecret), 1, "error", "Sum"),
        Method(<<"TwoOut">>, "", 3, PtrTo(TArgs), PtrTo(TInt), 2, "error", "Sum"),
        Method(<<"NoErr">>, "", 3, PtrTo(TArgs), PtrTo(TInt), 1, "int", "Sum"),
        Method(<<"hidden">>, "main", 3, PtrTo(TArgs), PtrTo(TInt), 1, "error", "Sum")}]

\* what the handler methods do: the error they return and the reply they set
NoError == [isErr |-> FALSE, msg |-> <<>>]
Invoke(fn, arg) ==
    CASE fn = "Sum" -> [err |-> NoError, reply |-> IntVal(arg.a + arg.b)]
      [] fn = "Div" ->
            IF arg.b = 0
            THEN [err |-> [isErr |-> TRUE, msg |-> <<"divide by zero">>], reply |-> IntVal(0)]
            ELSE [err |-> NoError, reply |-> IntVal(arg.a \div arg.b)]
      [] fn = "Inc" -> [err |-> NoError, reply |-> IntVal(arg.v + 1)]
      [] fn = "Ratio" ->
            IF arg.b = 0
            THEN [err |-> NoError, reply |-> FloatInf]
            ELSE [err |-> NoError, reply |-> FloatVal(arg.a \div arg.b)]

(***************************************************************************)
(* The registry: suitableMethod, suitableMethods, Register.                *)
(***************************************************************************)
RECURSIVE isExportedOrBuiltinType(_)
isExportedOrBuiltinType(t) ==
    IF t.kind = "ptr" THEN isExportedOrBuiltinType(t.elem)
    ELSE isExported(t.name) \/ t.pkgPath = ""

suitableMethodAnyOutput(method) ==
    /\ method.pkgPath = ""
    /\ method.numIn = 3
    /\ isExportedOrBuiltinType(method.in1)
    /\ method.in2.kind = "ptr"
    /\ isExportedOrBuiltinType(method.in2)

\* TRUE when suitableMethod returns a method type (not nil)
suitableMethod(method) ==
    /\ method.pkgPath = ""
    /\ method.numIn = 3
    /\ isExportedOrBuiltinType(method.in1)
    /\ method.in2.kind = "ptr"
    /\ isExportedOrBuiltinType(method.in2)
    /\ method.numOut = 1
    /\ method.out0 = "error"

methodTypeOf(method) ==
    [method |-> method, ArgType |-> method.in1, ReplyType |-> method.in2]

suitableMethods(typ) ==
    LET ok == {mt \in typ.methods : suitableMethod(mt)}
    IN  [n \in {mt.name : mt \in ok} |->
            methodTypeOf(CHOOSE mt \in ok : mt.name = n)]

\* suitableMethodWithName(typ, methodName): [isNil, mt]
suitableMethodWithName(typ, methodName) ==
    LET found == {method \in typ.methods : method.name = methodName}
    IN  IF found # {} /\ suitableMethod(CHOOSE method \in found : TRUE)
        THEN [isNil |-> FALSE, mt |-> methodTypeOf(CHOOSE method \in found : TRUE)]
        ELSE [isNil |-> TRUE]

\* the map f with f[k] = v
Put(f, k, v) == [x \in DOMAIN f \cup {k} |-> IF x = k THEN v ELSE f[x]]

NoRegistration ==
    [op |-> "none", val |-> "", name |-> <<>>, method |-> <<>>, st |-> "none", msg |-> <<>>]
Returned(op, data, methodName, st, msg) ==
    [op |-> op, val |-> data.val, name |-> data.typeName, method |-> methodName,
     st |-> st, msg |-> msg]

NoServiceName == <<"rpc.Register: no service name for type">>
NotExported(sName) == <<"rpc.Register: type ">> \o sName \o <<" is not exported">>
AlreadyDefined(sName) == <<"rpc: service already defined: ">> \o sName

RegisterOverwrites(data) ==
    LET sName == data.typeName
        srv == [name |-> sName, val |-> data.val, method |-> suitableMethods(data)]
    IN  /\ callPc = "idle"
        /\ regRet.st # "panic"
        /\ IF sName = <<>>
           THEN m' = m /\ regRet' = Returned("Register", data, <<>>, "err", NoServiceName)
           ELSE IF ~isExported(sName)
           THEN m' = m /\ regRet' = Returned("Register", data, <<>>, "err", NotExported(sName))
           ELSE m' = Put(m, sName, srv) /\ regRet' = Returned("Register", data, <<>>, "ok", <<>>)
        /\ UNCHANGED <<codec, callVars, connVars, httpVars, codecCall, running, raceVars,
                       cliVars, otherConn, panicVal>>

Register(data) ==
    LET sName == data.typeName
        srv == [name |-> sName, val |-> data.val, method |-> suitableMethods(data)]
    IN  /\ callPc = "idle"
        /\ regRet.st # "panic"
        /\ IF sName = <<>>
           THEN m' = m /\ regRet' = Returned("Register", data, <<>>, "err", NoServiceName)
           ELSE IF ~isExported(sName)
           THEN m' = m /\ regRet' = Returned("Register", data, <<>>, "err", NotExported(sName))
           ELSE IF sName \in DOMAIN m
           THEN m' = m /\ regRet' = Returned("Register", data, <<>>, "err",
                                             AlreadyDefined(sName))
           ELSE m' = Put(m, sName, srv) /\ regRet' = Returned("Register", data, <<>>, "ok", <<>>)
        /\ UNCHANGED <<codec, callVars, connVars, httpVars, codecCall, running, raceVars,
                       cliVars, otherConn, panicVal>>

RegisterNameWholeTable(data, methodName) ==
    LET sName == data.typeName
        r == suitableMethodWithName(data, methodName)
    IN  /\ callPc = "idle"
        /\ regRet.st # "panic"
        /\ IF sName \in DOMAIN m
           THEN IF r.isNil
                THEN m' = m /\ regRet' = Returned("RegisterName", data, methodName, "panic", <<>>)
                ELSE /\ m' = [m EXCEPT ![sName].method = Put(<<>>, r.mt.method.name, r.mt)]
                     /\ regRet' = Returned("RegisterName", data, methodName, "ok", <<>>)
           ELSE IF sName = <<>>
           THEN m' = m /\ regRet' = Returned("RegisterName", data, methodName, "err",
                                             NoServiceName)
           ELSE IF ~isExported(sName)
           THEN m' = m /\ regRet' = Returned("RegisterName", data, methodName, "err",
                                             NotExported(sName))
           ELSE IF r.isNil
           THEN m' = m /\ regRet' = Returned("RegisterName", data, methodName, "panic", <<>>)
           ELSE /\ m' = Put(m, sName, [name |-> sName, val |-> data.val,
                                       method |-> suitableMethods(data)])
                /\ regRet' = Returned("RegisterName", data, methodName, "ok", <<>>)
        /\ UNCHANGED <<codec, callVars, connVars, httpVars, codecCall, running, raceVars,
                       cliVars, otherConn, panicVal>>

\* RegisterName(data, methodName); mt.method.Name of a nil mt is a panic
RegisterName(data, methodName) ==
    LET sName == data.typeName
        r == suitableMethodWithName(data, methodName)
    IN  /\ callPc = "idle"
        /\ regRet.st # "panic"
        /\ IF sName \in DOMAIN m
           THEN IF r.isNil
                THEN m' = m /\ regRet' = Returned("RegisterName", data, methodName, "panic", <<>>)
                ELSE /\ m' = [m EXCEPT ![sName].method = Put(@, r.mt.method.name, r.mt)]
                     /\ regRet' = Returned("RegisterName", data, methodName, "ok", <<>>)
           ELSE IF sName = <<>>
           THEN m' = m /\ regRet' = Returned("RegisterName", data, methodName, "err",
                                             NoServiceName)
           ELSE IF ~isExported(sName)
           THEN m' = m /\ regRet' = Returned("RegisterName", data, methodName, "err",
                                             NotExported(sName))
           ELSE IF r.isNil
           THEN m' = m /\ regRet' = Returned("RegisterName", data, methodName, "panic", <<>>)
           ELSE /\ m' = Put(m, sName, [name |-> sName, val |-> data.val,
                                       method |-> Put(<<>>, r.mt.method.name, r.mt)])
                /\ regRet' = Returned("RegisterName", data, methodName, "ok", <<>>)
        /\ UNCHANGED <<codec, callVars, connVars, httpVars, codecCall, running, raceVars,
                       cliVars, otherConn, panicVal>>

(***************************************************************************)
(* Server.call: one pass of the range loop per step.                       *)
(***************************************************************************)
StoreReplyShifted(rs, i, reply) ==
    [rs EXCEPT ![IF i < Len(rs) THEN i + 1 ELSE 1] = reply]

\* replies[idx] = reply
StoreReply(rs, i, reply) == [rs EXCEPT ![i] = reply]

\* lines 100-106: the method string does not parse
InvalidRequestReply(c, req, msg) == ErrResponse(c, InvalidRequest, msg)

\* lines 110-115: the service is not in the registry
ServiceNotFoundAsInternal(c, serviceName) ==
    ErrResponse(c, InternalErr, <<"rpc: can't find service ">> \o serviceName)

ServiceNotFoundReply(c, serviceName) ==
    ErrResponse(c, MethodNotFound, <<"rpc: can't find service ">> \o serviceName)

\* lines 119-125: the method is not in the service's table
MethodNotFoundReply(c, req) ==
    SetReqId(ErrResponse(c, MethodNotFound, <<"rpc: can't find method ">> \o req.method),
             req.id)

\* lines 141-147: the payload does not decode
BodyErrorReply(c, req) ==
    ErrResponse(c, InternalErr, <<"rpc: could not read request body ">> \o req.method)

\* lines 158-160: the handler returned an error
HandlerErrorLosesMessage(c, req, err) ==
    SetReqId(ErrResponse(c, InternalErr, <<"InternalErr">>), req.id)

HandlerErrorReply(c, req, err) ==
    SetReqId(ErrResponse(c, InternalErr, err.msg), req.id)

\* lines 161-165: normal response
SuccessReply(c, req, reply) == SetReqId(NewResponse(c, reply), req.id)

\* What one pass of the loop does with req: [st |-> "reply"|"panic", reply,
\* invoked (the handler calls it makes), looked (s.m.Load was reached)].
Dispatch(c, reg, req) ==
    LET p == parseFromRPCMethod(req.method)
    IN  IF p.err
        THEN [st |-> "reply", reply |-> InvalidRequestReply(c, req, p.msg), invoked |-> <<>>,
              looked |-> FALSE]
        ELSE IF p.serviceName \notin DOMAIN reg
        THEN [st |-> "reply", reply |-> ServiceNotFoundReply(c, p.serviceName),
              invoked |-> <<>>, looked |-> TRUE]
        ELSE LET svc == reg[p.serviceName]
             IN  IF p.methodName \notin DOMAIN svc.method
                 THEN [st |-> "reply", reply |-> MethodNotFoundReply(c, req),
                       invoked |-> <<>>, looked |-> TRUE]
                 ELSE
    LET mType == svc.method[p.methodName]
        argIsPtr == mType.ArgType.kind = "ptr"
        argT == IF argIsPtr THEN mType.ArgType.elem ELSE mType.ArgType
        \* argV.Elem() is taken before the decode: a value argument is
        \* handed to ReadRequestBody as a plain value
        body == ReadRequestBody(c, req.params, argT, argIsPtr)
    IN  IF body.st = "panic"
        THEN [st |-> "panic", reply |-> NilResponse, invoked |-> <<>>, looked |-> TRUE]
        ELSE IF body.st = "err"
        THEN [st |-> "reply", reply |-> BodyErrorReply(c, req), invoked |-> <<>>,
              looked |-> TRUE]
        ELSE LET r == Invoke(mType.method.fn, body.v)
                 inv == <<[service |-> p.serviceName, method |-> p.methodName,
                           arg |-> body.v]>>
             IN  IF r.err.isErr
                 THEN [st |-> "reply", reply |-> HandlerErrorReply(c, req, r.err),
                       invoked |-> inv, looked |-> TRUE]
                 ELSE [st |-> "reply", reply |-> SuccessReply(c, req, r.reply),
                       invoked |-> inv, looked |-> TRUE]

NoLocals == [serviceName |-> <<>>, methodName |-> <<>>, err |-> FALSE, looked |-> FALSE]

\* line 94: replies = make([]Response, len(reqs)), then the loop starts
CallEnter(rs) ==
    /\ reqs' = rs
    /\ replies' = [i \in 1..Len(rs) |-> NilResponse]
    /\ idx' = 1
    /\ callPc' = "loop"
    /\ locals' = NoLocals
    /\ calls' = <<>>

\* lines 95-168: one request of the range loop
CallPassWith(reg) ==
    /\ callPc = "loop"
    /\ idx <= Len(reqs)
    /\ LET d == Dispatch(codec, reg, reqs[idx])
           p == parseFromRPCMethod(reqs[idx].method)
       IN  /\ locals' = [serviceName |-> p.serviceName, methodName |-> p.methodName,
                         err |-> p.err, looked |-> d.looked]
           /\ IF d.st = "panic"
              THEN /\ callPc' = "panicked"
                   /\ panicVal' = "error"
                   /\ UNCHANGED <<replies, idx, calls>>
              ELSE /\ replies' = StoreReply(replies, idx, d.reply)
                   /\ idx' = idx + 1
                   /\ calls' = calls \o [k \in DOMAIN d.invoked |->
                                           [at |-> idx, call |-> d.invoked[k]]]
                   /\ UNCHANGED <<callPc, panicVal>>
    /\ UNCHANGED <<srvVars, reqs, connVars, httpVars, codecCall, cliVars, otherConn>>

CallPass == CallPassWith(m)

CallStep ==
    /\ running = 0
    /\ CallPass
    /\ UNCHANGED <<running, raceVars>>

\* the request at idx is one whose pass calls a handler method
AtHandler ==
    /\ callPc = "loop"
    /\ idx <= Len(reqs)
    /\ Dispatch(codec, m, reqs[idx]).invoked # <<>>

\* lines 95-158 and service.call: the pass of the request at idx has made
\* function.Call and the handler method runs
HandlerEnter ==
    /\ AtHandler
    /\ running = 0
    /\ running' = idx
    /\ UNCHANGED <<srvVars, callVars, connVars, httpVars, codecCall, raceVars, cliVars,
                   otherConn, panicVal>>

\* line 158 and service.call: the handler method that function.Call runs
\* panics with a value that is not an error, as panic("...") does; the
\* panic unwinds Server.call
HandlerPanics ==
    /\ AtHandler
    /\ running = 0
    /\ callPc' = "panicked"
    /\ panicVal' = "string"
    /\ locals' = [serviceName |-> parseFromRPCMethod(reqs[idx].method).serviceName,
                  methodName |-> parseFromRPCMethod(reqs[idx].method).methodName,
                  err |-> FALSE, looked |-> TRUE]
    /\ UNCHANGED <<srvVars, reqs, replies, idx, calls, connVars, httpVars, codecCall,
                   running, raceVars, cliVars, otherConn>>

\* the handler method returns and the pass ends (lines 158-167)
HandlerReturn ==
    /\ running # 0
    /\ running = idx
    /\ CallPass
    /\ running' = 0
    /\ UNCHANGED raceVars

\* lines 95-147: a pass that does not get to a handler method
CallPassOver ==
    /\ ~AtHandler
    /\ running = 0
    /\ CallPass
    /\ UNCHANGED <<running, raceVars>>

NoWrite == [svc |-> <<>>]
NoLookup == <<>>

\* the pass at idx gets a service from s.m.Load (line 109)
ServiceLoaded ==
    /\ callPc = "loop"
    /\ idx <= Len(reqs)
    /\ ~parseFromRPCMethod(reqs[idx].method).err
    /\ parseFromRPCMethod(reqs[idx].method).serviceName \in DOMAIN m

\* line 118: the read of svc.method[methodName] begins
LookupBegin ==
    /\ ServiceLoaded
    /\ running = 0
    /\ lookup = NoLookup
    /\ lookup' = parseFromRPCMethod(reqs[idx].method).serviceName
    /\ UNCHANGED <<srvVars, callVars, connVars, httpVars, codecCall, running, mapWrite,
                   cliVars, otherConn, panicVal>>

\* the method map of mapWrite.svc once the assignment is made
Written(reg, w) == [reg EXCEPT ![w.svc].method = Put(@, w.name, w.mt)]

\* line 118 and the rest of the pass.  A read of a map that is being
\* assigned to is a data race: it finds the map as it was or as it will be,
\* or the runtime ends the process (concurrent map read and map write)
LookupEnd ==
    /\ lookup # NoLookup
    /\ IF mapWrite.svc = lookup
       THEN \/ CallPassWith(m)
            \/ CallPassWith(Written(m, mapWrite))
            \/ /\ callPc' = "fatal"
               /\ UNCHANGED <<srvVars, reqs, replies, idx, locals, calls, connVars,
                              httpVars, codecCall, cliVars, otherConn, panicVal>>
       ELSE CallPassWith(m)
    /\ lookup' = NoLookup
    /\ UNCHANGED <<running, mapWrite>>

\* lines 95-115: a pass that ends before it has a service
CallPassNoService ==
    /\ ~ServiceLoaded
    /\ running = 0
    /\ CallPass
    /\ UNCHANGED <<running, raceVars>>

\* RegisterName lines 59-71, for a service that is stored and a method that
\* is suitable: the assignment loadedSrv.method[mt.method.Name] = mt begins
RegisterNameBegin(data, methodName) ==
    LET sName == data.typeName
        r == suitableMethodWithName(data, methodName)
    IN  /\ mapWrite = NoWrite
        /\ callPc # "fatal"
        /\ sName \in DOMAIN m
        /\ ~r.isNil
        /\ mapWrite' = [svc |-> sName, name |-> r.mt.method.name, mt |-> r.mt,
                        val |-> data.val]
        /\ UNCHANGED <<srvVars, callVars, connVars, httpVars, codecCall, running, lookup,
                       cliVars, otherConn, panicVal>>

\* lines 71-72 and 89: the assignment is made and RegisterName returns nil
RegisterNameEnd ==
    /\ mapWrite # NoWrite
    /\ callPc # "fatal"
    /\ m' = Written(m, mapWrite)
    /\ regRet' = [op |-> "RegisterName", val |-> mapWrite.val, name |-> mapWrite.svc,
                  method |-> mapWrite.name, st |-> "ok", msg |-> <<>>]
    /\ mapWrite' = NoWrite
    /\ UNCHANGED <<codec, callVars, connVars, httpVars, codecCall, running, lookup,
                   cliVars, otherConn, panicVal>>

\* lines 170: return
CallReturn ==
    /\ callPc = "loop"
    /\ idx > Len(reqs)
    /\ callPc' = "returned"
    /\ UNCHANGED <<srvVars, reqs, replies, idx, locals, calls, connVars, httpVars,
                   codecCall, running, raceVars, cliVars, otherConn, panicVal>>

(***************************************************************************)
(* Frame bodies.  A body is the codec's encoding of a list (shape "array") *)
(* or of one object (shape "object"), or bytes that are neither            *)
(* (Garbage).                                                              *)
(***************************************************************************)
Garbage == [enc |-> "none"]
NullBody == [enc |-> "json", shape |-> "null", items |-> <<>>]       \* null
ScalarBody == [enc |-> "json", shape |-> "scalar", items |-> <<>>]   \* "" or a number
Encoding(c, shape, items) == [enc |-> c, shape |-> shape, items |-> items]

\* ReadRequest(data): [err, reqs]
gobReadRequest(data) ==
    IF data.enc = "gob" /\ data.shape = "array"
    THEN [err |-> FALSE, reqs |-> data.items]
    ELSE [err |-> TRUE, reqs |-> <<>>]

\* a JSON object with the fields of a jsonRequest and no others
IsRequestObject(x) == DOMAIN x = {"method", "params", "id"}

\* what json decoding leaves in a []*T for an element null
NilPointer == [nilPtr |-> TRUE]

\* the body is decoded as an array of objects (null decodes to a nil slice
\* and a null element to a nil pointer, both without an error), or else as
\* one object
\* the *jsonRequest decoded from an element: Args is an interface{}
jsonRequestOf(x) ==
    IF x = JNull THEN NilPointer ELSE [x EXCEPT !.params = jsonGeneric(@)]

jsonReadRequest(data) ==
    IF data.enc # "json"
    THEN [err |-> TRUE, reqs |-> <<>>]
    ELSE CASE /\ data.shape = "array"
              /\ \A i \in DOMAIN data.items :
                    IsRequestObject(data.items[i]) \/ data.items[i] = JNull ->
                [err |-> FALSE,
                 reqs |-> [i \in DOMAIN data.items |-> jsonRequestOf(data.items[i])]]
           [] data.shape = "object" /\ IsRequestObject(data.items[1]) ->
                [err |-> FALSE, reqs |-> <<jsonRequestOf(data.items[1])>>]
           [] data.shape = "null" -> [err |-> FALSE, reqs |-> <<>>]
           [] OTHER -> [err |-> TRUE, reqs |-> <<>>]

ReadRequest(c, data) == IF c = "json" THEN jsonReadRequest(data) ELSE gobReadRequest(data)

\* EncodeRequests(reqs): [err, body]; json.Marshal refuses +Inf params
EncodeRequests(c, rs) ==
    IF c = "json" /\ \E i \in DOMAIN rs : rs[i].params = JInf
    THEN [err |-> TRUE, body |-> Garbage]
    ELSE [err |-> FALSE, body |-> Encoding(c, "array", rs)]

\* NewRequest(method, argv), with the identifier randId gave it; the
\* request is held as its fields are marshalled
NewRequest(c, method, argv, id) ==
    IF c = "json"
    THEN [method |-> method, params |-> ToJSON(argv), id |-> id]
    ELSE [method |-> method, params |-> GobOf(argv), id |-> <<>>]

\* EncodeResponses(resps): [err, body]; json.Marshal refuses a +Inf result
EncodeResponses(c, rs) ==
    IF c = "json" /\ \E i \in DOMAIN rs : rs[i].result = JInf
    THEN [err |-> TRUE, body |-> Garbage]
    ELSE [err |-> FALSE, body |-> Encoding(c, "array", rs)]

(***************************************************************************)
(* Server.serveConn.                                                       *)
(***************************************************************************)
NoFrame == [n |-> 0, parseFailed |-> FALSE, afterErr |-> FALSE]
NothingSent == [n |-> 0, for |-> 0, body |-> Garbage, ok |-> TRUE]

\* the frame written last answers the frame read last and holds an error
AnsweredWithError ==
    /\ sent.n > 0
    /\ sent.for = recv.n
    /\ \E i \in DOMAIN sent.body.items : sent.body.items[i].errCode # Success

\* ServeTCP lines 217-223: a connection is accepted and served
Accept ==
    /\ connPc = "none"
    /\ callPc = "idle"
    /\ connPc' = "read"
    /\ srvConn' = "open"
    /\ UNCHANGED <<srvVars, callVars, resps, recv, sent, cliVars, otherConn, panicVal,
                   httpVars, codecCall, running, raceVars>>

\* lines 184-187 and 206: ReadTCP fails, the loop is left and the function
\* returns; nothing closes conn
ServeConnReadError ==
    /\ connPc = "read"
    /\ connPc' = "returned"
    /\ UNCHANGED <<srvVars, callVars, srvConn, resps, recv, sent, cliVars, otherConn,
                   panicVal, httpVars, codecCall, running, raceVars>>

\* lines 184-196: ReadTCP returns a frame; ReadRequest decodes its body
ServeConnRead(body) ==
    /\ connPc = "read"
    /\ recv.n < MaxFrames
    /\ LET r == ReadRequest(codec, body)
       IN  /\ recv' = [n |-> recv.n + 1, parseFailed |-> r.err,
                       afterErr |-> AnsweredWithError]
           /\ IF r.err
              THEN /\ resps' = Append(resps, ErrResponse(codec, ParseErr, <<"decode error">>))
                   /\ connPc' = "write"
                   /\ UNCHANGED callVars
              ELSE /\ CallEnter(r.reqs)
                   /\ connPc' = "call"
                   /\ UNCHANGED resps
    /\ UNCHANGED <<srvVars, srvConn, sent, cliVars, otherConn, panicVal, httpVars,
                   codecCall, running, raceVars>>

ServeConnCalledAppends ==
    /\ connPc = "call"
    /\ callPc = "returned"
    /\ resps' = resps \o replies
    /\ callPc' = "idle"
    /\ connPc' = "write"
    /\ UNCHANGED <<srvVars, reqs, replies, idx, locals, calls, srvConn, recv, sent,
                   cliVars, otherConn, panicVal, httpVars, codecCall, running, raceVars>>

\* line 196: s.call has returned
ServeConnCalled ==
    /\ connPc = "call"
    /\ callPc = "returned"
    /\ resps' = replies
    /\ callPc' = "idle"
    /\ connPc' = "write"
    /\ UNCHANGED <<srvVars, reqs, replies, idx, locals, calls, srvConn, recv, sent,
                   cliVars, otherConn, panicVal, httpVars, codecCall, running, raceVars>>

\* lines 199-204: encode resps; write and flush the frame (WriteTCP returns
\* nil or an error, which is dropped), or skip the write when the encoding
\* fails; in every case the loop goes on to its ReadTCP
ServeConnWrite ==
    /\ connPc = "write"
    /\ LET e == EncodeResponses(codec, resps)
       IN  IF e.err
           THEN UNCHANGED sent
           ELSE \E ok \in BOOLEAN :
                    sent' = [n |-> sent.n + 1, for |-> recv.n, body |-> e.body, ok |-> ok]
    /\ connPc' = "read"
    /\ UNCHANGED <<srvVars, callVars, srvConn, resps, recv, cliVars, otherConn, panicVal,
                   httpVars, codecCall, running, raceVars>>

(***************************************************************************)
(* Server.ServeHTTP.  A request is its method, whether io.ReadAll of its   *)
(* body succeeds, and the body; a response is the status and the body      *)
(* handed to String.                                                       *)
(***************************************************************************)
StatusOK == 200
EmptyBody == [enc |-> "empty"]
NoHttpRequest  == [method |-> "", readOk |-> TRUE, body |-> EmptyBody]
NoHttpResponse == [status |-> 0, body |-> EmptyBody]
HttpRequest(method, readOk, body) == [method |-> method, readOk |-> readOk, body |-> body]

\* EncodeResponses(resp) of one Response: the encoding of one object
EncodeResponse(c, resp) == Encoding(c, "object", <<resp>>)

\* String(w, statusCode, b)
String(statusCode, b) == [status |-> statusCode, body |-> b]

MethodNotAllowed(method) == <<"method not allowed: ", method>>

NotAllowedAsHttpError(c, method) ==
    String(405, EncodeResponse(c, ErrResponse(c, InvalidRequest, MethodNotAllowed(method))))

\* lines 259-265: the answer to a request whose method is not POST
NotAllowedResponse(c, method) ==
    String(StatusOK, EncodeResponse(c, ErrResponse(c, MethodNotFound, MethodNotAllowed(method))))

\* ServeHTTP(w, req) up to its call of s.call, or up to its return when it
\* does not get there
ServeHTTP(req) ==
    /\ httpPc \in {"idle", "done"}
    /\ callPc = "idle"
    /\ connPc = "none"
    /\ httpReq' = req
    /\ IF req.method # "POST"
       THEN /\ httpResp' = NotAllowedResponse(codec, req.method)
            /\ httpPc' = "done"
            /\ httpDecoded' = FALSE
            /\ UNCHANGED callVars
       ELSE IF ~req.readOk
       THEN /\ httpResp' = String(StatusOK, EncodeResponse(codec,
                               ErrResponse(codec, InvalidParamErr, <<"read error">>)))
            /\ httpPc' = "done"
            /\ httpDecoded' = FALSE
            /\ UNCHANGED callVars
       ELSE LET r == ReadRequest(codec, req.body)
            IN  /\ httpDecoded' = TRUE
                /\ IF r.err
                   THEN /\ httpResp' = String(StatusOK, EncodeResponse(codec,
                                           ErrResponse(codec, ParseErr, <<"decode error">>)))
                        /\ httpPc' = "done"
                        /\ UNCHANGED callVars
                   ELSE /\ CallEnter(r.reqs)
                        /\ httpPc' = "call"
                        /\ httpResp' = NoHttpResponse
    /\ UNCHANGED <<srvVars, connVars, cliVars, otherConn, panicVal, codecCall, running,
                   raceVars>>

\* lines 279-283: s.call has returned; b is nil when the encoding fails
ServeHTTPCalled ==
    /\ httpPc = "call"
    /\ callPc = "returned"
    /\ LET e == EncodeResponses(codec, replies)
       IN  httpResp' = String(StatusOK, IF e.err THEN EmptyBody ELSE e.body)
    /\ callPc' = "idle"
    /\ httpPc' = "done"
    /\ UNCHANGED <<srvVars, reqs, replies, idx, locals, calls, connVars, cliVars,
                   otherConn, panicVal, codecCall, running, raceVars, httpReq,
                   httpDecoded>>

\* a recovery that answers the request with an InternalErr response
ServeHTTPRecoverReplies ==
    /\ httpPc = "call"
    /\ callPc = "panicked"
    /\ httpResp' = String(StatusOK, EncodeResponse(codec,
                                       ErrResponse(codec, InternalErr, <<"panic">>)))
    /\ callPc' = "idle"
    /\ httpPc' = "done"
    /\ UNCHANGED <<srvVars, reqs, replies, idx, locals, calls, connVars, cliVars, otherConn,
                   panicVal, codecCall, running, raceVars, httpReq, httpDecoded>>

\* lines 238-243: a panic of s.call is recovered and ServeHTTP returns with
\* nothing written
ServeHTTPRecover ==
    /\ httpPc = "call"
    /\ callPc = "panicked"
    /\ httpResp' = String(StatusOK, EmptyBody)
    /\ callPc' = "idle"
    /\ httpPc' = "done"
    /\ UNCHANGED <<srvVars, reqs, replies, idx, locals, calls, connVars, cliVars,
                   otherConn, panicVal, codecCall, running, raceVars, httpReq,
                   httpDecoded>>

(***************************************************************************)
(* Client.Call(method, args, reply) with reply a *int, and the callTcp it  *)
(* runs.  The errors Call returns are told apart by what made them.        *)
(***************************************************************************)
NoTraffic   == [w |-> "none"]
RequestSent == [w |-> "request"]
Silent      == [w |-> "silent"]
Broken      == [w |-> "broken"]
ClosedConn  == [w |-> "closed"]

NilConn == 0
DialErr    == [isErr |-> TRUE, msg |-> <<"net.Dial tcp get err">>]
NotJsonErr == [isErr |-> TRUE, msg |-> <<"only jsonrpc support CallBatch">>]
ReplyTypeErr == [isErr |-> TRUE, msg |-> <<"multi reply should be array or slice pointer">>]
TimeoutErr == [isErr |-> TRUE, msg |-> <<"timeout">>]
IOErr      == [isErr |-> TRUE, msg |-> <<"i/o error">>]
DecodeErr  == [isErr |-> TRUE, msg |-> <<"decode error">>]

\* ReadResponse(data): [err, resps]
gobReadResponse(data) ==
    IF data.enc = "gob" /\ data.shape = "array"
    THEN [err |-> FALSE, resps |-> data.items]
    ELSE [err |-> TRUE, resps |-> <<>>]

\* a JSON object with the fields of a jsonResponse and no others
IsResponseObject(x) == DOMAIN x = {"id", "errCode", "errMsg", "result"}

\* the *jsonResponse decoded from an element: Result is an interface{}
jsonResponseOf(x) ==
    IF x = JNull THEN NilPointer ELSE [x EXCEPT !.result = jsonGeneric(@)]

jsonReadResponse(data) ==
    IF data.enc # "json"
    THEN [err |-> TRUE, resps |-> <<>>]
    ELSE CASE /\ data.shape = "array"
              /\ \A i \in DOMAIN data.items :
                    IsResponseObject(data.items[i]) \/ data.items[i] = JNull ->
                [err |-> FALSE,
                 resps |-> [i \in DOMAIN data.items |-> jsonResponseOf(data.items[i])]]
           [] data.shape = "object" /\ IsResponseObject(data.items[1]) ->
                [err |-> FALSE, resps |-> <<jsonResponseOf(data.items[1])>>]
           [] data.shape = "null" -> [err |-> FALSE, resps |-> <<>>]
           [] OTHER -> [err |-> TRUE, resps |-> <<>>]

ReadResponse(c, data) == IF c = "json" THEN jsonReadResponse(data) ELSE gobReadResponse(data)

\* Response.GetReply(): the Reply bytes, or json.Marshal of Result
GetReply(resp) == resp.result

\* ReadResponseBody(respBody, out) for a pointer out to a value of type t
ReadResponseBody(c, respBody, t) ==
    IF c = "json" THEN jsonDecode(respBody, t) ELSE gobDecode(respBody, t)

\* Response.GetResult(): the Result of a jsonResponse
GetResult(resp) == resp.result

ResultsReversed(rs) == [i \in DOMAIN rs |-> GetResult(rs[Len(rs) + 1 - i])]

\* CallBatch lines 194-197: the results of the responses, in their order
Results(rs) == [i \in DOMAIN rs |-> GetResult(rs[i])]

\* CallBatch line 199: EncodeResponses(results); a nil slice encodes as null
EncodeResults(results) == IF results = <<>> THEN JNull ELSE JArr(results)

\* NewRequest(method, args) for the k-th request the client makes: Int.Sum of
\* k and k+1; the JSON-RPC codec gives it an identifier
CliIds == <<"r1", "r2">>
CliRequest(c, k) ==
    [method |-> <<"Int", Dot, "Sum">>,
     params |-> IF c = "json" THEN JObj(k, k + 1) ELSE GobOf(ArgsVal(k, k + 1)),
     id |-> IF c = "json" THEN <<CliIds[k]>> ELSE <<>>]

\* Call returns err
Return(err) ==
    /\ cliPc' = "done"
    /\ callErr' = err

callTcpEnterRedials ==
    /\ expired' = FALSE
    /\ wire' = NoTraffic
    /\ \/ /\ dials' = dials + 1
          /\ UNCHANGED <<tcpConn, closeSt>>
          /\ Return(DialErr)
       \/ /\ tcpConn = NilConn \/ callErr.isErr
          /\ dials' = dials + 1
          /\ tcpConn' = dials + 1
          /\ UNCHANGED closeSt
          /\ cliPc' = "select"
          /\ UNCHANGED callErr
       \/ /\ tcpConn # NilConn
          /\ UNCHANGED <<tcpConn, dials, closeSt>>
          /\ cliPc' = "select"
          /\ UNCHANGED callErr

\* Close() was called on the connection the client holds
connClosed == closeSt = "closed"

\* a valid that dials again when the connection held has been closed
callTcpEnterReopens ==
    /\ expired' = FALSE
    /\ wire' = NoTraffic
    /\ \/ /\ tcpConn = NilConn \/ connClosed
          /\ dials' = dials + 1
          /\ UNCHANGED <<tcpConn, closeSt>>
          /\ Return(DialErr)
       \/ /\ tcpConn = NilConn \/ connClosed
          /\ dials' = dials + 1
          /\ tcpConn' = dials + 1
          /\ closeSt' = IF connClosed THEN "none" ELSE closeSt
          /\ cliPc' = "select"
          /\ UNCHANGED callErr
       \/ /\ tcpConn # NilConn /\ ~connClosed
          /\ UNCHANGED <<tcpConn, dials, closeSt>>
          /\ cliPc' = "select"
          /\ UNCHANGED callErr

\* callTcp lines 208-219 and valid lines 257-270: the connection is dialed
\* if there is none, and the timeout context is made
callTcpEnter ==
    /\ expired' = FALSE
    /\ wire' = NoTraffic
    /\ \/ /\ tcpConn = NilConn
          /\ dials' = dials + 1
          /\ UNCHANGED <<tcpConn, closeSt>>
          /\ Return(DialErr)
       \/ /\ tcpConn = NilConn
          /\ dials' = dials + 1
          /\ tcpConn' = dials + 1
          /\ UNCHANGED closeSt
          /\ cliPc' = "select"
          /\ UNCHANGED callErr
       \/ /\ tcpConn # NilConn
          /\ UNCHANGED <<tcpConn, dials, closeSt>>
          /\ cliPc' = "select"
          /\ UNCHANGED callErr

\* Call lines 163-166: the request is made and handed to callTcp
ClientCall ==
    /\ cliPc \in {"idle", "done"}
    /\ nCalls < MaxCalls
    /\ nCalls' = nCalls + 1
    /\ cliOp' = "call"
    /\ cliReqs' = <<CliRequest(codec, 1)>>
    /\ cliReplyT' = PtrTo(TInt)
    /\ cliResps' = <<>>
    /\ replyVal' = Zero(TInt)
    /\ callTcpEnter
    /\ UNCHANGED <<srvVars, callVars, connVars, otherConn, panicVal, httpVars, codecCall,
                   running, raceVars>>

ClientCallBatchAnyCodec(rs, replyT) ==
    /\ cliPc \in {"idle", "done"}
    /\ nCalls < MaxCalls
    /\ nCalls' = nCalls + 1
    /\ cliOp' = "batch"
    /\ cliReqs' = rs
    /\ cliReplyT' = replyT
    /\ replyVal' = Zero(SliceOf(TInt))
    /\ cliResps' = [i \in DOMAIN rs |-> NilResponse]
    /\ callTcpEnter
    /\ UNCHANGED <<srvVars, callVars, connVars, otherConn, panicVal, httpVars, codecCall,
                   running, raceVars>>

\* CallBatch lines 177-190: the codec and the type of reply are tested, then
\* the requests are handed to callTcp
ClientCallBatch(rs, replyT) ==
    /\ cliPc \in {"idle", "done"}
    /\ nCalls < MaxCalls
    /\ nCalls' = nCalls + 1
    /\ cliOp' = "batch"
    /\ cliReqs' = rs
    /\ cliReplyT' = replyT
    /\ replyVal' = Zero(SliceOf(TInt))
    /\ IF codec # "json"
       THEN /\ Return(NotJsonErr)
            /\ cliResps' = <<>>
            /\ UNCHANGED <<tcpConn, dials, expired, wire, closeSt>>
       ELSE IF ~(replyT.kind = "ptr" /\ replyT.elem.kind = "slice")
       THEN /\ Return(ReplyTypeErr)
            /\ cliResps' = <<>>
            /\ UNCHANGED <<tcpConn, dials, expired, wire, closeSt>>
       ELSE /\ cliResps' = [i \in DOMAIN rs |-> NilResponse]
            /\ callTcpEnter
    /\ UNCHANGED <<srvVars, callVars, connVars, otherConn, panicVal, httpVars, codecCall,
                   running, raceVars>>

\* the five seconds of timeoutCtx pass
TimerExpire ==
    /\ cliPc \in {"select", "read"}
    /\ ~expired
    /\ expired' = TRUE
    /\ UNCHANGED <<srvVars, callVars, connVars, otherConn, panicVal, httpVars, codecCall,
                   running, raceVars, tcpConn, dials, cliOp, cliReqs, cliReplyT, cliPc,
                   wire, cliResps, callErr, replyVal, nCalls, closeSt>>

\* callTcp lines 221-233: the select, and in its default branch the
\* encoding and the write of the request frame.  On a connection that
\* Close() has closed, WriteTCP fails or leaves the frame in the bufio.Writer,
\* whose Flush fails unseen: no frame leaves, and ReadTCP will fail.
ClientSelect ==
    /\ cliPc = "select"
    /\ IF expired
       THEN /\ Return(TimeoutErr)
            /\ UNCHANGED wire
       ELSE \/ /\ wire' = IF connClosed THEN ClosedConn ELSE RequestSent
               /\ cliPc' = "read"
               /\ UNCHANGED callErr
            \/ /\ Return(IOErr)                 \* WriteTCP failed
               /\ UNCHANGED wire
    /\ UNCHANGED <<srvVars, callVars, connVars, otherConn, panicVal, httpVars, codecCall,
                   running, raceVars, tcpConn, dials, cliOp, cliReqs, cliReplyT, expired,
                   cliResps, replyVal, nCalls, closeSt>>

\* Close lines 248-255, called between two operations of the client: nothing
\* for a nil tcpConn, else tcpConn.Close(), whose error is only logged; the
\* field tcpConn is not assigned
ClientClose ==
    /\ cliPc \in {"idle", "done"}
    /\ closeSt' = IF tcpConn = NilConn THEN "noop" ELSE "closed"
    /\ UNCHANGED <<srvVars, callVars, connVars, otherConn, panicVal, httpVars, codecCall,
                   running, raceVars, tcpConn, dials, cliOp, cliReqs, cliReplyT, cliPc,
                   expired, wire, cliResps, callErr, replyVal, nCalls>>

\* the peer answers the request frame with a frame
ServerRespond(body) ==
    /\ wire = RequestSent
    /\ wire' = body
    /\ UNCHANGED <<srvVars, callVars, connVars, otherConn, panicVal, httpVars, codecCall,
                   running, raceVars, tcpConn, dials, cliOp, cliReqs, cliReplyT, cliPc,
                   expired, cliResps, callErr, replyVal, nCalls, closeSt>>

\* the connection breaks before an answer arrives
ConnBreak ==
    /\ wire = RequestSent
    /\ wire' = Broken
    /\ UNCHANGED <<srvVars, callVars, connVars, otherConn, panicVal, httpVars, codecCall,
                   running, raceVars, tcpConn, dials, cliOp, cliReqs, cliReplyT, cliPc,
                   expired, cliResps, callErr, replyVal, nCalls, closeSt>>

\* the peer takes the request frame and will never answer it
ServerSilent ==
    /\ wire = RequestSent
    /\ wire' = Silent
    /\ UNCHANGED <<srvVars, callVars, connVars, otherConn, panicVal, httpVars, codecCall,
                   running, raceVars, tcpConn, dials, cliOp, cliReqs, cliReplyT, cliPc,
                   expired, cliResps, callErr, replyVal, nCalls, closeSt>>

\* callTcp lines 235-242 and Call lines 167-174: ReadTCP returns the
\* response frame, which is decoded; the first response's reply is read
ClientRead ==
    /\ cliPc = "read"
    /\ wire \notin {NoTraffic, RequestSent, Silent, Broken, ClosedConn}
    /\ LET r == ReadResponse(codec, wire)
       IN  IF r.err
           THEN /\ Return(DecodeErr)
                /\ UNCHANGED <<cliResps, replyVal>>
           ELSE /\ cliResps' = r.resps
                /\ IF cliOp = "batch"
                   THEN \* CallBatch lines 194-204
                        LET respBody == EncodeResults(Results(r.resps))
                            d == ReadResponseBody(codec, respBody, SliceOf(TInt))
                        IN  IF d.st = "ok"
                            THEN /\ replyVal' = d.v
                                 /\ Return(NoError)
                            ELSE /\ Return(DecodeErr)
                                 /\ UNCHANGED replyVal
                   ELSE IF r.resps = <<>>
                   THEN /\ cliPc' = "panicked"  \* resps[0] of an empty slice
                        /\ UNCHANGED <<callErr, replyVal>>
                   ELSE LET d == ReadResponseBody(codec, GetReply(r.resps[1]), TInt)
                        IN  IF d.st = "ok"
                            THEN /\ replyVal' = d.v
                                 /\ Return(NoError)
                            ELSE /\ Return(DecodeErr)
                                 /\ UNCHANGED replyVal
    /\ UNCHANGED <<srvVars, callVars, connVars, otherConn, panicVal, httpVars, codecCall,
                   running, raceVars, tcpConn, dials, cliOp, cliReqs, cliReplyT, expired,
                   wire, nCalls, closeSt>>

\* callTcp lines 235-237: ReadTCP fails on the broken or closed connection
ClientReadError ==
    /\ cliPc = "read"
    /\ wire \in {Broken, ClosedConn}
    /\ Return(IOErr)
    /\ UNCHANGED <<srvVars, callVars, connVars, otherConn, panicVal, httpVars, codecCall,
                   running, raceVars, tcpConn, dials, cliOp, cliReqs, cliReplyT, expired,
                   wire, cliResps, replyVal, nCalls, closeSt>>

(***************************************************************************)
(* The requests a caller can send.                                         *)
(***************************************************************************)
Ids == {<<>>, <<"r1">>}

Payloads(c) ==
    IF c = "json"
    THEN {JObj(1, 2), JObj(1, 0), JArr(<<JObj(2, 3)>>), JArr(<<>>), JNull, JStr}
    ELSE {GobOf(ArgsVal(1, 2)), GobOf(ArgsVal(1, 0)), GobOf(IntVal(1)), GobGarbage}

ResolvableMethods == {<<"Int", ".", "Sum">>, <<"Int", ".", "Div">>}
OtherMethods ==
    {<<"Int", ".", "Inc">>, <<"Int", ".", "Nope">>, <<"Nope", ".", "Sum">>,
     <<"Int">>, <<"Int", ".", "Sum", ".", "Sum">>, <<>>}

Request(method, params, id) == [method |-> method, params |-> params, id |-> id]

Requests(c) ==
    {Request(mt, p, i) : mt \in ResolvableMethods, p \in Payloads(c), i \in Ids}
    \cup {Request(mt, p, i) : mt \in OtherMethods,
                              p \in {IF c = "json" THEN JObj(1, 2) ELSE GobOf(IntVal(1))},
                              i \in Ids}

NoCodecCall == [op |-> "none"]

RECURSIVE SeqsUpTo(_, _)
SeqsUpTo(A, n) ==
    IF n = 0 THEN {<<>>}
    ELSE LET shorter == SeqsUpTo(A, n - 1)
         IN  shorter \cup {Append(s, a) : s \in shorter, a \in A}

(***************************************************************************)
(* Spec: a server is built with a codec, handlers are registered and       *)
(* request lists are handed to Server.call.                                *)
(***************************************************************************)
Init ==
    /\ codec \in {"gob", "json"}
    /\ m = <<>>
    /\ regRet = NoRegistration
    /\ reqs = <<>>
    /\ replies = <<>>
    /\ idx = 1
    /\ callPc = "idle"
    /\ locals = NoLocals
    /\ calls = <<>>
    /\ connPc = "none"
    /\ srvConn = "none"
    /\ resps = <<>>
    /\ recv = NoFrame
    /\ sent = NothingSent
    /\ tcpConn = NilConn
    /\ dials = 0
    /\ cliOp = "none"
    /\ cliReqs = <<>>
    /\ cliReplyT = PtrTo(TInt)
    /\ cliPc = "idle"
    /\ expired = FALSE
    /\ wire = NoTraffic
    /\ cliResps = <<>>
    /\ callErr = NoError
    /\ replyVal = Zero(TInt)
    /\ nCalls = 0
    /\ closeSt = "none"
    /\ httpPc = "idle"
    /\ httpReq = NoHttpRequest
    /\ httpResp = NoHttpResponse
    /\ httpDecoded = FALSE
    /\ codecCall = NoCodecCall
    /\ running = 0
    /\ mapWrite = NoWrite
    /\ lookup = NoLookup
    /\ otherConn = "none"
    /\ panicVal = "none"

DoRegister == \E h \in Handlers : Register(h)

DoCall ==
    /\ callPc = "idle"
    /\ connPc = "none"
    /\ \E rs \in SeqsUpTo(Requests(codec), MaxBatch) : CallEnter(rs)
    /\ UNCHANGED <<srvVars, connVars, httpVars, codecCall, running, raceVars, cliVars,
                   otherConn, panicVal>>

Next == DoRegister \/ DoCall \/ CallStep \/ CallReturn

Spec == Init /\ [][Next]_vars

(***************************************************************************)
(* ConnSpec: a server serves one TCP connection, on which a peer sends up  *)
(* to MaxFrames frames.                                                    *)
(***************************************************************************)
ConnRequests(c) ==
    LET args(a, b) == IF c = "json" THEN JObj(a, b) ELSE GobOf(ArgsVal(a, b))
    IN  {Request(<<"Int", Dot, "Sum">>, args(1, 2), <<"r1">>),
         Request(<<"Int", Dot, "Ratio">>, args(1, 0), <<"r2">>),
         Request(<<"Nope", Dot, "Sum">>, args(2, 3), <<"r3">>)}

ConnBodies(c) ==
    {Encoding(c, "array", rs) : rs \in SeqsUpTo(ConnRequests(c), MaxBatch)}
    \cup {Encoding(c, "object", <<r>>) : r \in ConnRequests(c)}
    \cup {Garbage}

DoServeConnRead == \E body \in ConnBodies(codec) : ServeConnRead(body)

\* the handler is registered before the server listens
RegisterThenServe ==
    /\ connPc = "none"
    /\ Register(IntHandler)

ConnNext ==
    \/ RegisterThenServe
    \/ Accept
    \/ DoServeConnRead
    \/ ServeConnReadError
    \/ CallStep
    \/ CallReturn
    \/ ServeConnCalled
    \/ ServeConnWrite

ConnSpec == Init /\ [][ConnNext]_vars

(***************************************************************************)
(* HttpSpec: a server with the handler Int serves HTTP requests, one at a  *)
(* time, of any method and with any body.                                  *)
(***************************************************************************)
HttpMethods == {"POST", "GET", "PUT"}

HttpBodies(c) ==
    LET args(a, b) == IF c = "json" THEN JObj(a, b) ELSE GobOf(ArgsVal(a, b))
        sum   == Request(<<"Int", Dot, "Sum">>, args(1, 2), <<"r1">>)
        ratio == Request(<<"Int", Dot, "Ratio">>, args(1, 0), <<"r2">>)
        nope  == Request(<<"Nope", Dot, "Sum">>, args(2, 3), <<"r3">>)
        bad   == Request(<<"Int", Dot, "Sum">>,
                         IF c = "json" THEN JNull ELSE GobGarbage, <<"r4">>)
    IN  {Encoding(c, "array", <<sum>>), Encoding(c, "array", <<ratio, sum>>),
         Encoding(c, "array", <<nope>>), Encoding(c, "array", <<bad>>),
         Encoding(c, "array", <<>>), Encoding(c, "object", <<sum>>), Garbage}

DoServeHTTP ==
    \E method \in HttpMethods, readOk \in BOOLEAN, body \in HttpBodies(codec) :
        ServeHTTP(HttpRequest(method, readOk, body))

\* the handler is registered before the server listens
RegisterThenServeHTTP ==
    /\ httpPc = "idle"
    /\ Register(IntHandler)

HttpNext ==
    \/ RegisterThenServeHTTP
    \/ DoServeHTTP
    \/ CallStep
    \/ CallReturn
    \/ HandlerPanics
    \/ ServeHTTPCalled
    \/ ServeHTTPRecover

HttpSpec == Init /\ [][HttpNext]_vars

(***************************************************************************)
(* ClientSpec: a client makes up to MaxCalls calls of a method whose reply *)
(* is an int, to a peer that answers with any frame or not at all.  The    *)
(* client's own steps and the passing of time are fair; the peer's are not.*)
(***************************************************************************)
ClientResponses(c) ==
    {SetReqId(NewResponse(c, IntVal(3)), <<"r1">>),
     SetReqId(NewResponse(c, IntVal(5)), <<"r2">>),
     SetReqId(ErrResponse(c, MethodNotFound, <<"method not found">>), <<"r1">>),
     SetReqId(ErrResponse(c, InternalErr, <<"divide by zero">>), <<"r1">>)}

ClientBodies(c) ==
    {Encoding(c, "array", rs) : rs \in SeqsUpTo(ClientResponses(c), MaxBatch)}
    \cup {Encoding(c, "object", <<r>>) : r \in ClientResponses(c)}
    \cup {Garbage}

DoServerRespond == \E body \in ClientBodies(codec) : ServerRespond(body)

ReplyTypes == {PtrTo(SliceOf(TInt)), PtrTo(TInt), SliceOf(TInt)}

DoClientCallBatch ==
    \E rs \in SeqsUpTo({CliRequest(codec, k) : k \in DOMAIN CliIds}, MaxBatch),
       replyT \in ReplyTypes :
        ClientCallBatch(rs, replyT)

ClientNext ==
    \/ ClientCall
    \/ DoClientCallBatch
    \/ TimerExpire
    \/ ClientSelect
    \/ DoServerRespond
    \/ ServerSilent
    \/ ConnBreak
    \/ ClientRead
    \/ ClientReadError

ClientSpec ==
    /\ Init
    /\ [][ClientNext]_vars
    /\ WF_vars(TimerExpire)
    /\ WF_vars(ClientSelect)
    /\ WF_vars(ClientRead)
    /\ WF_vars(ClientReadError)

(***************************************************************************)
(* CloseSpec: the client of ClientSpec, whose owner also calls Close()     *)
(* between two calls, any number of times; its peer answers with a frame   *)
(* of at most one response, or not at all.                                 *)
(***************************************************************************)
CloseBodies(c) ==
    {Encoding(c, "array", <<r>>) : r \in ClientResponses(c)}
    \cup {Encoding(c, "array", <<>>), Garbage}

DoServerRespondOne == \E body \in CloseBodies(codec) : ServerRespond(body)

CloseNext ==
    \/ ClientCall
    \/ DoClientCallBatch
    \/ ClientClose
    \/ TimerExpire
    \/ ClientSelect
    \/ DoServerRespondOne
    \/ ServerSilent
    \/ ConnBreak
    \/ ClientRead
    \/ ClientReadError

CloseSpec ==
    /\ Init
    /\ [][CloseNext]_vars
    /\ WF_vars(TimerExpire)
    /\ WF_vars(ClientSelect)
    /\ WF_vars(ClientRead)
    /\ WF_vars(ClientReadError)

(***************************************************************************)
(* RegSpec: handlers of every kind are registered, whole or one method at  *)
(* a time, in any order.                                                   *)
(***************************************************************************)
RegHandlers == {IntHandler, OtherIntHandler, LowerHandler, AnonHandler, MixHandler}
RegMethodNames ==
    {<<"Sum">>, <<"Div">>, <<"Neg">>, <<"Good">>, <<"ByValue">>, <<"TwoOut">>, <<"Nope">>}

DoRegisterAny == \E h \in RegHandlers : Register(h)
DoRegisterName == \E h \in RegHandlers, n \in RegMethodNames : RegisterName(h, n)

RegNext == DoRegisterAny \/ DoRegisterName

RegSpec == Init /\ [][RegNext]_vars

(***************************************************************************)
(* MethodSpec: one request whose method string is any string of at most    *)
(* MaxMethodLen tokens.                                                    *)
(***************************************************************************)
MethodTokens == {"Int", "Sum", Dot}

DoCallMethod ==
    /\ callPc = "idle"
    /\ \E mt \in SeqsUpTo(MethodTokens, MaxMethodLen), i \in Ids :
          CallEnter(<<Request(mt, IF codec = "json" THEN JObj(1, 2)
                                  ELSE GobOf(ArgsVal(1, 2)), i)>>)
    /\ UNCHANGED <<srvVars, connVars, httpVars, codecCall, running, raceVars, cliVars,
                   otherConn, panicVal>>

MethodNext == DoRegister \/ DoCallMethod \/ CallStep \/ CallReturn

MethodSpec == Init /\ [][MethodNext]_vars

(***************************************************************************)
(* BatchSpec: Server.call with the handler Int registered, the entry and   *)
(* the return of a handler method being steps of their own.  The loop's    *)
(* own steps are fair; a handler method may run for ever.                  *)
(***************************************************************************)
DoCallBatch ==
    /\ callPc = "idle"
    /\ IntHandler.typeName \in DOMAIN m
    /\ \E rs \in SeqsUpTo(ConnRequests(codec), MaxBatch) : CallEnter(rs)
    /\ UNCHANGED <<srvVars, connVars, httpVars, codecCall, running, raceVars, cliVars,
                   otherConn, panicVal>>

BatchNext ==
    \/ DoRegister
    \/ DoCallBatch
    \/ HandlerEnter
    \/ HandlerReturn
    \/ CallPassOver
    \/ CallReturn

BatchSpec ==
    /\ Init
    /\ [][BatchNext]_vars
    /\ WF_vars(HandlerEnter)
    /\ WF_vars(CallPassOver)
    /\ WF_vars(CallReturn)

(***************************************************************************)
(* RaceSpec: Server.call serves a batch while another goroutine calls      *)
(* RegisterName for the registered service Int.                            *)
(***************************************************************************)
DoRegisterNameBegin ==
    \E data \in {IntHandler, OtherIntHandler}, methodName \in {<<"Sum">>, <<"Neg">>} :
        RegisterNameBegin(data, methodName)

RaceNext ==
    \/ DoRegister
    \/ DoCallBatch
    \/ DoRegisterNameBegin
    \/ RegisterNameEnd
    \/ LookupBegin
    \/ LookupEnd
    \/ CallPassNoService
    \/ CallReturn

RaceSpec == Init /\ [][RaceNext]_vars

(***************************************************************************)
(* TwoConnSpec: ServeTCP has accepted a second connection besides the one  *)
(* of ConnSpec, each served by its own goroutine.  A panic that no         *)
(* goroutine recovers ends the process, and with it every goroutine.  The  *)
(* server's steps are fair; the peers' are not.                            *)
(***************************************************************************)
ProcessUp == otherConn # "panicked" /\ callPc # "panicked"

\* ServeTCP lines 217-223: the second connection is accepted
OtherAccept ==
    /\ ProcessUp
    /\ otherConn = "none"
    /\ otherConn' = "serving"
    /\ UNCHANGED <<srvVars, callVars, connVars, httpVars, codecCall, running, raceVars,
                   cliVars, panicVal>>

\* serveConn lines 184-187 on the second connection: ReadTCP fails
OtherReadError ==
    /\ ProcessUp
    /\ otherConn = "serving"
    /\ otherConn' = "returned"
    /\ UNCHANGED <<srvVars, callVars, connVars, httpVars, codecCall, running, raceVars,
                   cliVars, panicVal>>

\* the requests the second connection's peer may send
OtherRequests(c) ==
    ConnRequests(c)
    \cup {Request(<<"Int", Dot, "Sum">>, IF c = "json" THEN JNull ELSE GobGarbage, <<"r4">>)}

\* serveConn line 196 on the second connection: s.call panics for a frame
\* read there; serveConn has no recover
OtherPanics ==
    /\ ProcessUp
    /\ otherConn = "serving"
    /\ \E req \in OtherRequests(codec) : Dispatch(codec, m, req).st = "panic"
    /\ otherConn' = "panicked"
    /\ UNCHANGED <<srvVars, callVars, connVars, httpVars, codecCall, running, raceVars,
                   cliVars, panicVal>>

UpServeConnRead == ProcessUp /\ DoServeConnRead
UpServeConnReadError == ProcessUp /\ ServeConnReadError
UpCallStep == ProcessUp /\ CallStep
UpCallReturn == ProcessUp /\ CallReturn
UpServeConnCalled == ProcessUp /\ ServeConnCalled
UpServeConnWrite == ProcessUp /\ ServeConnWrite

TwoConnNext ==
    \/ RegisterThenServe
    \/ Accept
    \/ OtherAccept
    \/ OtherReadError
    \/ OtherPanics
    \/ UpServeConnRead
    \/ UpServeConnReadError
    \/ UpCallStep
    \/ UpCallReturn
    \/ UpServeConnCalled
    \/ UpServeConnWrite

TwoConnSpec ==
    /\ Init
    /\ [][TwoConnNext]_vars
    /\ WF_vars(UpCallStep)
    /\ WF_vars(UpCallReturn)
    /\ WF_vars(UpServeConnCalled)
    /\ WF_vars(UpServeConnWrite)

(***************************************************************************)
(* CodecSpec: a caller applies the functions of the codec, one at a time,  *)
(* to arguments of its choice.                                             *)
(***************************************************************************)
ParamElems == {JObj(1, 2), JObj(2, 3), JNum(1), JNum(2), JStr, JNull}

BodyPayloads(c) ==
    IF c = "json"
    THEN ParamElems \cup {JArr(s) : s \in SeqsUpTo(ParamElems, MaxParams)}
    ELSE {GobOf(ArgsVal(1, 2)), GobOf(IntVal(1)), GobOf(FloatVal(1)), GobGarbage}

BodyTypes == {TArgs, TInt, TFloat64, SliceOf(TInt), SliceOf(TArgs)}

\* codec.ReadRequestBody(data, out) with out a pointer to a new t
DoReadRequestBody ==
    /\ \E data \in BodyPayloads(codec), t \in BodyTypes :
          codecCall' = [op |-> "ReadRequestBody", data |-> data, t |-> t,
                        out |-> ReadRequestBody(codec, data, t, TRUE)]
    /\ UNCHANGED <<srvVars, callVars, connVars, cliVars, otherConn, panicVal, httpVars,
                   running, raceVars>>

\* the bodies handed to ReadRequest and ReadResponse: encodings of objects
\* of both kinds, one by one and in arrays, and bodies that are neither
CodecObjects(c) == ConnRequests(c) \cup ClientResponses(c)

CodecBodies(c) ==
    {Encoding(c, "array", s) : s \in SeqsUpTo(CodecObjects(c), MaxBatch)}
    \cup {Encoding(c, "object", <<x>>) : x \in CodecObjects(c)}
    \cup {Encoding(c, "array", <<JNull>>), Encoding(c, "array", <<JNum(1)>>),
          Encoding(c, "object", <<JObj(1, 2)>>), NullBody, ScalarBody, Garbage}

DoReadRequest ==
    /\ \E data \in CodecBodies(codec) :
          codecCall' = [op |-> "ReadRequest", data |-> data,
                        out |-> ReadRequest(codec, data)]
    /\ UNCHANGED <<srvVars, callVars, connVars, cliVars, otherConn, panicVal, httpVars,
                   running, raceVars>>

DoReadResponse ==
    /\ \E data \in CodecBodies(codec) :
          codecCall' = [op |-> "ReadResponse", data |-> data,
                        out |-> ReadResponse(codec, data)]
    /\ UNCHANGED <<srvVars, callVars, connVars, cliVars, otherConn, panicVal, httpVars,
                   running, raceVars>>

\* the requests and responses a codec builds
BuiltArgs == {ArgsVal(1, 2), IntVal(1), FloatInf, BigInt(1), BigInt(2)}

BuiltRequests(c) ==
    {NewRequest(c, <<"Int", Dot, "Sum">>, argv, <<"r1">>) : argv \in BuiltArgs}

BuiltResponses(c) ==
    {SetReqId(NewResponse(c, data), <<"r1">>) : data \in BuiltArgs}
    \cup {SetReqId(ErrResponse(c, InternalErr, <<"divide by zero">>), <<"r2">>)}

\* ReadRequest(EncodeRequests(rs)), when the encoding is made
DoEncodeReadRequests ==
    /\ \E rs \in SeqsUpTo(BuiltRequests(codec), MaxBatch) :
          LET e == EncodeRequests(codec, rs)
          IN  codecCall' = [op |-> "EncodeReadRequests", data |-> rs, enc |-> e,
                            out |-> IF e.err THEN [err |-> TRUE, reqs |-> <<>>]
                                    ELSE ReadRequest(codec, e.body)]
    /\ UNCHANGED <<srvVars, callVars, connVars, cliVars, otherConn, panicVal, httpVars,
                   running, raceVars>>

\* ReadResponse(EncodeResponses(resps)), when the encoding is made
DoEncodeReadResponses ==
    /\ \E rs \in SeqsUpTo(BuiltResponses(codec), MaxBatch) :
          LET e == EncodeResponses(codec, rs)
          IN  codecCall' = [op |-> "EncodeReadResponses", data |-> rs, enc |-> e,
                            out |-> IF e.err THEN [err |-> TRUE, resps |-> <<>>]
                                    ELSE ReadResponse(codec, e.body)]
    /\ UNCHANGED <<srvVars, callVars, connVars, cliVars, otherConn, panicVal, httpVars,
                   running, raceVars>>

CodecNext ==
    \/ DoReadRequestBody
    \/ DoReadRequest
    \/ DoReadResponse
    \/ DoEncodeReadRequests
    \/ DoEncodeReadResponses

CodecSpec == Init /\ [][CodecNext]_vars

(***************************************************************************)
(* What the claims speak of, stated without the dispatcher's own steps.    *)
(***************************************************************************)
NoDot(s) == \A i \in DOMAIN s : s[i] # Dot

\* method is service "." name
SplitsAs(method, service, name) ==
    NoDot(service) /\ NoDot(name) /\ method = service \o <<Dot>> \o name

\* the method types the registry holds for the request's method string
Targets(reg, req) ==
    UNION {{reg[sv].method[n] : n \in {k \in DOMAIN reg[sv].method :
                                          SplitsAs(req.method, sv, k)}} :
           sv \in DOMAIN reg}

Registered(reg, req) == Count(req.method, Dot) = 1 /\ Targets(reg, req) # {}
Target(reg, req) == CHOOSE mt \in Targets(reg, req) : TRUE
ArgTypeOf(mt) == IF mt.ArgType.kind = "ptr" THEN mt.ArgType.elem ELSE mt.ArgType

\* the argument a payload stands for: JSON-RPC params of one element stand
\* for that element; absent, null and empty params stand for nothing
ArgOf(c, params, t) ==
    IF c = "json"
    THEN CASE params.j = "null" -> [st |-> "err"]
           [] params.j = "arr" /\ Len(params.items) = 0 -> [st |-> "err"]
           [] params.j = "arr" /\ Len(params.items) = 1 -> jsonDecode(params.items[1], t)
           [] OTHER -> jsonDecode(params, t)
    ELSE gobDecode(params, t)

Decodable(c, reg, req) == ArgOf(c, req.params, ArgTypeOf(Target(reg, req))).st = "ok"
Outcome(c, reg, req) ==
    Invoke(Target(reg, req).method.fn, ArgOf(c, req.params, ArgTypeOf(Target(reg, req))).v)

Encoded(c, v) == IF c = "json" THEN ToJSON(v) ELSE GobOf(v)
InvokedAt(i) == \E k \in DOMAIN calls : calls[k].at = i
Done(i) == i \in DOMAIN reqs /\ i < idx

\* resp is a response to req: a success carrying the reply of req's method
\* on req's argument, or an error response that speaks of req
Answers(req, resp) ==
    \/ /\ resp.errCode = Success
       /\ Registered(m, req) /\ Decodable(codec, m, req)
       /\ ~Outcome(codec, m, req).err.isErr
       /\ resp.result = Encoded(codec, Outcome(codec, m, req).reply)
       /\ resp.id = req.id
    \/ /\ resp.errCode = InvalidRequest
       /\ resp.errMsg = <<"rpc: service/method request ill-formed: ">> \o req.method
    \/ /\ resp.errCode = MethodNotFound
       /\ \/ resp.errMsg = <<"rpc: can't find method ">> \o req.method
          \/ \E k \in DOMAIN req.method :
                /\ req.method[k] = Dot
                /\ resp.errMsg = <<"rpc: can't find service ">> \o SubSeq(req.method, 1, k - 1)
    \/ /\ resp.errCode = InternalErr
       /\ \/ resp.errMsg = <<"rpc: could not read request body ">> \o req.method
          \/ /\ Registered(m, req) /\ Decodable(codec, m, req)
             /\ Outcome(codec, m, req).err.isErr
             /\ resp.errMsg = Outcome(codec, m, req).err.msg

\* a request the dispatcher must answer with a success
Succeeds(req) ==
    /\ Registered(m, req)
    /\ Target(m, req).ArgType.kind = "ptr"
    /\ Decodable(codec, m, req)
    /\ ~Outcome(codec, m, req).err.isErr

(***************************************************************************)
(* C1: when Server.call returns, the reply list is as long as the request  *)
(* list and replies[i] answers reqs[i]: a success exactly for the requests *)
(* that name a registered method, carry its argument and whose handler     *)
(* returns nil, with that handler's reply on reqs[i]'s argument; an error  *)
(* response speaking of reqs[i] otherwise.                                 *)
(***************************************************************************)
C1_SameLengthIndexAligned ==
    callPc = "returned" =>
        /\ Len(replies) = Len(reqs)
        /\ \A i \in DOMAIN reqs :
              /\ Answers(reqs[i], replies[i])
              /\ Succeeds(reqs[i]) => replies[i].errCode = Success

\* a returned batch of two different requests, one answered with a success
\* and one with an error
C1_Witness ==
    /\ callPc = "returned"
    /\ Len(reqs) = 2
    /\ reqs[1] # reqs[2]
    /\ replies[1].errCode # Success
    /\ replies[2].errCode = Success

(***************************************************************************)
(* C2: every answered request whose method string holds exactly one '.'    *)
(* has a response with the request's identifier.                           *)
(***************************************************************************)
C2_IdEchoedOnEveryPath ==
    \A i \in DOMAIN reqs :
        (Done(i) /\ Count(reqs[i].method, Dot) = 1) => replies[i].id = reqs[i].id

(***************************************************************************)
(* C7: a request with a well-formed method string that names no registered *)
(* service, or no method of the service's table, is answered with          *)
(* MethodNotFound and no handler is invoked for it.                        *)
(***************************************************************************)
Unknown(reg, req) == Count(req.method, Dot) = 1 /\ Targets(reg, req) = {}

C7_UnknownIsMethodNotFound ==
    \A i \in DOMAIN reqs :
        (Done(i) /\ Unknown(m, reqs[i])) =>
            /\ replies[i].errCode = MethodNotFound
            /\ replies[i].result = NoResult(codec)
            /\ ~InvokedAt(i)

\* one batch answered both an unknown service and an unknown method of a
\* registered service
C7_Witness ==
    /\ callPc = "returned"
    /\ \E i, k \in DOMAIN reqs :
          /\ Unknown(m, reqs[i]) /\ Unknown(m, reqs[k])
          /\ \E sv \in DOMAIN m : SplitsAs(reqs[i].method, sv, <<"Nope">>)
          /\ \A sv \in DOMAIN m : sv # SubSeq(reqs[k].method, 1, 1)
          /\ replies[i].errCode = MethodNotFound
          /\ replies[k].errCode = MethodNotFound

(***************************************************************************)
(* C8: a pass over a request whose method string holds exactly one '.'     *)
(* splits it at that '.' into service name and method name; a pass over    *)
(* any other method string answers InvalidRequest without a registry       *)
(* lookup and without a handler invocation.                                *)
(***************************************************************************)
C8_SplitAtTheOnlyDot ==
    \A i \in DOMAIN reqs :
        (Done(i) /\ i = idx - 1) =>
            IF Count(reqs[i].method, Dot) = 1
            THEN /\ ~locals.err
                 /\ SplitsAs(reqs[i].method, locals.serviceName, locals.methodName)
                 /\ replies[i].errCode # InvalidRequest
            ELSE /\ locals.err
                 /\ replies[i].errCode = InvalidRequest
                 /\ ~locals.looked
                 /\ ~InvokedAt(i)

\* "Int.Sum.Sum" was answered with InvalidRequest while Int, with its method
\* Sum, was registered
C8_Witness ==
    /\ Done(1)
    /\ reqs[1].method = <<"Int", Dot, "Sum", Dot, "Sum">>
    /\ <<"Int">> \in DOMAIN m
    /\ replies[1].errCode = InvalidRequest

(***************************************************************************)
(* C9: a request that names a registered method and whose payload does not *)
(* decode into the method's argument type (absent, null and empty JSON-RPC *)
(* params included) is answered with InternalErr and the message           *)
(* "rpc: could not read request body <method>", its handler is not         *)
(* invoked, and the call goes on to answer the other requests.             *)
(***************************************************************************)
C9_BadPayloadIsInternalErr ==
    \A i \in DOMAIN reqs :
        (callPc # "idle" /\ Registered(m, reqs[i]) /\ ~Decodable(codec, m, reqs[i])) =>
            /\ callPc # "panicked"
            /\ Done(i) =>
                  /\ replies[i].errCode = InternalErr
                  /\ replies[i].errMsg =
                        <<"rpc: could not read request body ">> \o reqs[i].method
                  /\ ~InvokedAt(i)

(***************************************************************************)
(* C10: a request whose handler returns a non-nil error is answered with   *)
(* InternalErr, the handler's message and no result; every other request   *)
(* of the batch gets the response it gets when dispatched alone.           *)
(***************************************************************************)
HandlerFails(req) ==
    /\ Registered(m, req)
    /\ Target(m, req).ArgType.kind = "ptr"
    /\ Decodable(codec, m, req)
    /\ Outcome(codec, m, req).err.isErr

C10_HandlerErrorIsInternalErr ==
    \A i \in DOMAIN reqs :
        (Done(i) /\ HandlerFails(reqs[i])) =>
            /\ replies[i].errCode = InternalErr
            /\ replies[i].errMsg = Outcome(codec, m, reqs[i]).err.msg
            /\ replies[i].result = NoResult(codec)
            /\ InvokedAt(i)
            /\ \A k \in DOMAIN reqs :
                  (callPc = "returned" /\ k # i) => Answers(reqs[k], replies[k])
                                                    /\ (Succeeds(reqs[k]) =>
                                                          replies[k].errCode = Success)

\* a failing handler between two other requests' answers: first of a batch
\* whose second request succeeded
C10_Witness ==
    /\ callPc = "returned"
    /\ Len(reqs) = 2
    /\ HandlerFails(reqs[1])
    /\ replies[1].errMsg = <<"divide by zero">>
    /\ replies[2].errCode = Success

(***************************************************************************)
(* C4: the response frame written for a frame whose body did not decode as *)
(* a request list holds exactly one response, an error with code ParseErr. *)
(***************************************************************************)
C4_ParseErrFrameIsOneResponse ==
    (sent.n > 0 /\ sent.for = recv.n /\ recv.parseFailed) =>
        /\ Len(sent.body.items) = 1
        /\ sent.body.items[1].errCode = ParseErr

(***************************************************************************)
(* C5: before the server reads another frame it has written one response  *)
(* frame for every frame it has read: whenever serveConn is at its ReadTCP *)
(* call, as many frames were written as were read, the last one for the    *)
(* frame read last.                                                        *)
(***************************************************************************)
C5_OneResponseFramePerFrameRead ==
    connPc = "read" => (sent.n = recv.n /\ sent.for = recv.n)

(***************************************************************************)
(* C3: when the response Client.Call received carries an error, Call       *)
(* returns an error with that response's code and message.                 *)
(***************************************************************************)
C3_CallReturnsTheResponseError ==
    (cliOp = "call" /\ cliPc = "done" /\ Len(cliResps) = 1
        /\ cliResps[1].errCode # Success) =>
        callErr = [isErr |-> TRUE, code |-> cliResps[1].errCode,
                   msg |-> cliResps[1].errMsg]

(***************************************************************************)
(* C6: a Call that wrote its request to a server that never answers does   *)
(* not block forever: it returns the timeout error.                        *)
(***************************************************************************)
C6_SilentServerEndsInTimeout ==
    (cliPc = "read" /\ wire = Silent) ~> (cliPc = "done" /\ callErr = TimeoutErr)

C12_IOErrorClosesConnection ==
    /\ connPc = "returned" => srvConn = "closed"
    /\ (sent.n > 0 /\ ~sent.ok) => (connPc = "returned" /\ recv.n = sent.for)

(***************************************************************************)
(* C13: a client has no connection until its first Call, which dials; a    *)
(* failed dial returns an error and leaves the client without connection;  *)
(* once a connection is held, no operation dials again or changes it,      *)
(* whatever errors the operations on it return.                            *)
(***************************************************************************)
C13_DialsOnceLazily ==
    /\ [](/\ cliOp = "none" => (tcpConn = NilConn /\ dials = 0)
          /\ (cliPc = "done" /\ callErr = DialErr) => tcpConn = NilConn
          /\ tcpConn # NilConn => tcpConn = dials)
    /\ [][/\ (cliOp = "none" /\ cliOp' = "call") => dials' = 1
          /\ tcpConn # NilConn => (tcpConn' = tcpConn /\ dials' = dials)]_vars

\* a second operation is under way on the connection of the only dial made,
\* after the first operation returned a read or write error
C13_Witness ==
    /\ nCalls = 2
    /\ cliPc \in {"select", "read"}
    /\ callErr = IOErr
    /\ tcpConn = 1
    /\ dials = 1

(***************************************************************************)
(* C14: CallBatch on a client with the gob codec returns an error at once: *)
(* it dials nothing, writes nothing and leaves the client's connection as  *)
(* it was.                                                                 *)
(***************************************************************************)
C14_GobBatchTouchesNoNetwork ==
    /\ []((cliOp = "batch" /\ codec = "gob") => (cliPc = "done" /\ callErr = NotJsonErr))
    /\ [][(cliOp' = "batch" /\ codec = "gob" /\ nCalls' # nCalls) =>
             /\ tcpConn' = tcpConn
             /\ dials' = dials
             /\ wire' = wire
             /\ cliPc' = "done"]_vars

\* a gob client whose only operation was a CallBatch of two requests: it
\* has returned the error and has never dialed
C14_Witness ==
    /\ codec = "gob"
    /\ cliOp = "batch"
    /\ Len(cliReqs) = 2
    /\ nCalls = 1
    /\ cliPc = "done"
    /\ callErr = NotJsonErr
    /\ tcpConn = NilConn
    /\ dials = 0

(***************************************************************************)
(* C15: when a JSON-RPC CallBatch of n requests has received n success      *)
(* responses, the i-th carrying the identifier of the i-th request, it     *)
(* returns nil and the caller's list holds n elements, the i-th being the  *)
(* result of the i-th response.                                            *)
(***************************************************************************)
AnsweredInOrder ==
    /\ cliOp = "batch"
    /\ cliReplyT = PtrTo(SliceOf(TInt))
    /\ cliPc = "done"
    /\ wire \notin {NoTraffic, RequestSent, Silent, Broken, ClosedConn}
    /\ wire.enc = "json"
    /\ wire.items = cliResps
    /\ Len(cliResps) = Len(cliReqs)
    /\ \A i \in DOMAIN cliResps :
          /\ cliResps[i] # NilResponse
          /\ cliResps[i].errCode = Success
          /\ cliResps[i].id = cliReqs[i].id

C15_BatchResultsInRequestOrder ==
    AnsweredInOrder =>
        /\ callErr = NoError
        /\ replyVal.t = "slice"
        /\ Len(replyVal.items) = Len(cliReqs)
        /\ \A i \in DOMAIN cliReqs : replyVal.items[i] = IntVal(cliResps[i].result.n)

\* the batch of Int.Sum(1, 2) and Int.Sum(2, 3) was answered with 3 and 5 and
\* the caller's list is 3, 5
C15_Witness ==
    /\ AnsweredInOrder
    /\ Len(cliReqs) = 2
    /\ cliReqs[1].params = JObj(1, 2)
    /\ cliReqs[2].params = JObj(2, 3)
    /\ replyVal = SliceVal(<<IntVal(3), IntVal(5)>>)

(***************************************************************************)
(* Registration claims.  A name is exported when it begins with an         *)
(* upper-case letter; a type is built-in when it belongs to no package.    *)
(***************************************************************************)
StartsUpper(name) == name # <<>> /\ name[1] \in UpperTokens
HandlerOf(val) == CHOOSE h \in RegHandlers : h.val = val
RECURSIVE Base(_)
Base(t) == IF t.kind = "ptr" THEN Base(t.elem) ELSE t
ExportedOrBuiltin(t) == StartsUpper(t.name) \/ t.pkgPath = ""

\* the five criteria of a method that is indexed
MeetsCriteria(method) ==
    /\ StartsUpper(method.name)
    /\ method.numIn = 3
    /\ ExportedOrBuiltin(Base(method.in1))
    /\ method.in2.kind = "ptr" /\ ExportedOrBuiltin(Base(method.in2))
    /\ method.numOut = 1 /\ method.out0 = "error"

\* the entry the registry holds for a method
EntryOf(method) == [method |-> method, ArgType |-> method.in1, ReplyType |-> method.in2]
MethodNamed(h, n) == CHOOSE method \in h.methods : method.name = n
HasCriteriaMethod(h, n) ==
    \E method \in h.methods : method.name = n /\ MeetsCriteria(method)

\* the step is a call of op that returned
Called(op) == regRet' # regRet /\ regRet'.op = op

(***************************************************************************)
(* C16: a Register whose handler's service name is in the registry returns *)
(* the error "service already defined" and leaves the registry as it was.  *)
(***************************************************************************)
C16_DuplicateRegisterChangesNothing ==
    [][(Called("Register") /\ regRet'.name \in DOMAIN m) =>
          /\ m' = m
          /\ regRet'.st = "err"
          /\ regRet'.msg = <<"rpc: service already defined: ">> \o regRet'.name]_vars

\* Register of main.Int was turned down while the registry held the service
\* Int that RegisterName had made for other.Int, with Sum alone
C16_Witness ==
    /\ regRet.op = "Register"
    /\ regRet.val = "main.Int"
    /\ regRet.st = "err"
    /\ <<"Int">> \in DOMAIN m
    /\ m[<<"Int">>].val = "other.Int"
    /\ DOMAIN m[<<"Int">>].method = {<<"Sum">>}

(***************************************************************************)
(* C17: every service name of the registry is non-empty and exported, and  *)
(* so is every method name of every method table; a Register or            *)
(* RegisterName of a handler whose type name is empty or not exported      *)
(* returns an error.                                                       *)
(***************************************************************************)
C17_RegistryNamesExported ==
    /\ \A s \in DOMAIN m :
          /\ StartsUpper(s)
          /\ m[s].name = s
          /\ \A k \in DOMAIN m[s].method : StartsUpper(k)
    /\ (regRet.op # "none" /\ ~StartsUpper(regRet.name)) => regRet.st = "err"

\* RegisterName of a method the handler main.int has was turned down, with
\* services in the registry
C17_Witness ==
    /\ regRet.op = "RegisterName"
    /\ regRet.name = <<"int">>
    /\ regRet.method = <<"Sum">>
    /\ regRet.st = "err"
    /\ DOMAIN m = {<<"Int">>, <<"Mix">>}

(***************************************************************************)
(* C18: a Register that returns nil has stored a method table that holds   *)
(* exactly the handler's methods that meet the five criteria; no Register  *)
(* fails for the methods of its handler.                                   *)
(***************************************************************************)
C18_TableIsTheSuitableMethods ==
    /\ (regRet.op = "Register" /\ regRet.st = "ok") =>
          LET h == HandlerOf(regRet.val)
              good == {method \in h.methods : MeetsCriteria(method)}
              table == m[regRet.name].method
          IN  /\ DOMAIN table = {method.name : method \in good}
              /\ \A method \in good : table[method.name] = EntryOf(method)
    /\ (regRet.op = "Register" /\ regRet.st # "ok") =>
          /\ regRet.st = "err"
          /\ ~StartsUpper(regRet.name) \/ regRet.name \in DOMAIN m

\* main.Mix is registered: of its nine methods the table holds two
C18_Witness ==
    /\ regRet.op = "Register"
    /\ regRet.val = "main.Mix"
    /\ regRet.st = "ok"
    /\ Cardinality(HandlerOf("main.Mix").methods) = 9
    /\ DOMAIN m[<<"Mix">>].method = {<<"Good">>, <<"ByValue">>}

(***************************************************************************)
(* C19: RegisterName of a method that meets the criteria, for a handler    *)
(* with an exported type name, returns nil; a RegisterName that returns    *)
(* nil has put the one entry into the table of the handler's service, made *)
(* with that entry alone when the service was not there, and has changed   *)
(* nothing else of the registry.                                           *)
(***************************************************************************)
C19_RegisterNameIsAdditive ==
    /\ []((regRet.op = "RegisterName" /\ StartsUpper(regRet.name)
             /\ HasCriteriaMethod(HandlerOf(regRet.val), regRet.method)) => regRet.st = "ok")
    /\ [][(Called("RegisterName") /\ regRet'.st = "ok") =>
            LET s == regRet'.name
                n == regRet'.method
                entry == EntryOf(MethodNamed(HandlerOf(regRet'.val), n))
            IN  /\ DOMAIN m' = DOMAIN m \cup {s}
                /\ \A o \in DOMAIN m \ {s} : m'[o] = m[o]
                /\ m'[s].method[n] = entry
                /\ IF s \in DOMAIN m
                   THEN /\ m'[s].name = m[s].name
                        /\ m'[s].val = m[s].val
                        /\ DOMAIN m'[s].method = DOMAIN m[s].method \cup {n}
                        /\ \A k \in DOMAIN m[s].method \ {n} :
                              m'[s].method[k] = m[s].method[k]
                   ELSE /\ m'[s].name = s
                        /\ DOMAIN m'[s].method = {n}]_vars

\* RegisterName has put the Sum of other.Int in the place of the Sum of the
\* registered main.Int, whose other three methods and the service Mix are
\* there as before
C19_Witness ==
    /\ regRet.op = "RegisterName"
    /\ regRet.val = "other.Int"
    /\ regRet.method = <<"Sum">>
    /\ regRet.st = "ok"
    /\ DOMAIN m = {<<"Int">>, <<"Mix">>}
    /\ m[<<"Int">>].val = "main.Int"
    /\ DOMAIN m[<<"Int">>].method = {<<"Sum">>, <<"Div">>, <<"Inc">>, <<"Ratio">>}
    /\ m[<<"Int">>].method[<<"Sum">>].ReplyType = PtrTo(TFloat64)
    /\ DOMAIN m[<<"Mix">>].method = {<<"Good">>}

(***************************************************************************)
(* C20: a request whose method is not POST is answered, in the step that   *)
(* takes it, with status 200 and a body that is one error response of code *)
(* MethodNotFound (-32601); its body is not given to ReadRequest, Server   *)
(* .call is not entered for it and no handler method is invoked.           *)
(***************************************************************************)
C20_NonPostIsMethodNotFound ==
    /\ [](httpReq.method \notin {"", "POST"} =>
            /\ httpPc = "done"
            /\ callPc = "idle"
            /\ ~httpDecoded
            /\ httpResp.status = 200
            /\ httpResp.body.enc = codec
            /\ httpResp.body.shape = "object"
            /\ Len(httpResp.body.items) = 1
            /\ httpResp.body.items[1].errCode = -32601
            /\ httpResp.body.items[1].errMsg = <<"method not allowed: ", httpReq.method>>)
    /\ [][(httpReq' # httpReq /\ httpReq'.method # "POST") =>
            /\ reqs' = reqs
            /\ replies' = replies
            /\ idx' = idx
            /\ calls' = calls
            /\ m' = m]_vars

\* a GET whose body is a well-formed call of the registered Int.Sum has been
\* answered, after a POST of that call was dispatched
C20_Witness ==
    /\ httpReq.method = "GET"
    /\ httpReq.readOk
    /\ httpReq.body.enc = codec
    /\ httpReq.body.shape = "array"
    /\ Len(httpReq.body.items) = 1
    /\ httpReq.body.items[1].method = <<"Int", Dot, "Sum">>
    /\ httpReq.body.items[1].id = <<"r1">>
    /\ <<"Int">> \in DOMAIN m
    /\ httpPc = "done"
    /\ httpResp.status = 200
    /\ Len(calls) = 1

\* ServeHTTP has answered a POST whose body it read, decoded and dispatched
HttpDispatched ==
    /\ httpPc = "done"
    /\ httpReq.method = "POST"
    /\ httpReq.readOk
    /\ ~ReadRequest(codec, httpReq.body).err
    /\ httpResp.body # EmptyBody

(***************************************************************************)
(* C21: the body of the HTTP response to a dispatched request body has the *)
(* shape of that request body: one response object for one request        *)
(* object, an array for an array.                                          *)
(***************************************************************************)
C21_HttpResponseShapeFollowsRequest ==
    HttpDispatched =>
        /\ httpResp.body.shape = httpReq.body.shape
        /\ Len(httpResp.body.items) = Len(httpReq.body.items)

(***************************************************************************)
(* C22: the JSON-RPC ReadRequestBody of a params array into a target that  *)
(* is not a slice decodes the element of a one-element array, and decodes  *)
(* an array of any other length as the array it is; into a slice target    *)
(* it decodes the array as it is.                                          *)
(***************************************************************************)
C22_UnwrapsOnlyOneElementArrays ==
    (codecCall.op = "ReadRequestBody" /\ codec = "json" /\ codecCall.data.j = "arr") =>
        codecCall.out =
            IF codecCall.t.kind # "slice" /\ Len(codecCall.data.items) = 1
            THEN jsonDecode(codecCall.data.items[1], codecCall.t)
            ELSE jsonDecode(codecCall.data, codecCall.t)

\* the body is the JSON-RPC encoding of one object of the given shape, as an
\* object or as a one-element array
OneObject(data, IsObject(_)) ==
    /\ data.enc = "json"
    /\ data.shape \in {"object", "array"}
    /\ Len(data.items) = 1
    /\ IsObject(data.items[1])

\* the body is an object of the shape or an array of such objects
ObjectOrArray(data, IsObject(_)) ==
    /\ data.enc = "json"
    /\ data.shape \in {"object", "array"}
    /\ data.shape = "object" => Len(data.items) = 1
    /\ \A i \in DOMAIN data.items : IsObject(data.items[i])

(***************************************************************************)
(* C23: the JSON-RPC ReadRequest of the encoding of a request object and   *)
(* of the one-element array that holds it both return, without an error,   *)
(* the same one-element list; so does ReadResponse for a response object;  *)
(* a body that is neither an object of that shape nor an array of them is  *)
(* rejected with an error.                                                 *)
(***************************************************************************)
C23_ObjectAndOneElementArrayAgree ==
    /\ (codecCall.op = "ReadRequest" /\ codec = "json") =>
          /\ OneObject(codecCall.data, IsRequestObject) =>
                LET obj == ReadRequest(codec, Encoding(codec, "object", codecCall.data.items))
                    arr == ReadRequest(codec, Encoding(codec, "array", codecCall.data.items))
                IN  /\ ~obj.err /\ ~arr.err
                    /\ obj.reqs = arr.reqs
                    /\ obj.reqs = codecCall.data.items
                    /\ codecCall.out \in {obj, arr}
          /\ ~ObjectOrArray(codecCall.data, IsRequestObject) => codecCall.out.err
    /\ (codecCall.op = "ReadResponse" /\ codec = "json") =>
          /\ OneObject(codecCall.data, IsResponseObject) =>
                LET obj == ReadResponse(codec, Encoding(codec, "object", codecCall.data.items))
                    arr == ReadResponse(codec, Encoding(codec, "array", codecCall.data.items))
                IN  /\ ~obj.err /\ ~arr.err
                    /\ obj.resps = arr.resps
                    /\ obj.resps = codecCall.data.items
                    /\ codecCall.out \in {obj, arr}
          /\ ~ObjectOrArray(codecCall.data, IsResponseObject) => codecCall.out.err

(***************************************************************************)
(* C24: for both codecs, a list of requests a codec has built is encoded   *)
(* by EncodeRequests without an error and ReadRequest of the encoding      *)
(* returns, without an error, a list equal to it: the same length and, at  *)
(* each place, the same method, identifier and payload; likewise for       *)
(* responses with EncodeResponses and ReadResponse.                        *)
(***************************************************************************)
C24_EncodeThenReadIsTheList ==
    /\ codecCall.op = "EncodeReadRequests" =>
          /\ ~codecCall.enc.err
          /\ ~codecCall.out.err
          /\ codecCall.out.reqs = codecCall.data
    /\ codecCall.op = "EncodeReadResponses" =>
          /\ ~codecCall.enc.err
          /\ ~codecCall.out.err
          /\ codecCall.out.resps = codecCall.data

\* the handler method of request j of the batch has been entered
HandlerStarted(j) == running = j \/ idx > j

(***************************************************************************)
(* C25: while the handler method of request i runs, the handler method of  *)
(* every later request j of the batch that has one is entered, whether or  *)
(* not the one of i ever returns; Server.call returns only when no handler *)
(* method runs and every request has been passed.                          *)
(***************************************************************************)
C25_BatchHandlersRunInParallel ==
    /\ [](callPc = "returned" => (running = 0 /\ idx > Len(reqs)))
    /\ \A i \in 1..MaxBatch : \A j \in (i + 1)..MaxBatch :
          (/\ running = i
           /\ j <= Len(reqs)
           /\ Dispatch(codec, m, reqs[j]).invoked # <<>>) ~> HandlerStarted(j)

(***************************************************************************)
(* C26: at no time is the dispatcher reading the method map of a service   *)
(* while RegisterName is assigning to the method map of that service.      *)
(***************************************************************************)
C26_LookupNeverRacesRegisterName ==
    ~(lookup # NoLookup /\ mapWrite # NoWrite /\ mapWrite.svc = lookup)

(***************************************************************************)
(* C27: a request for a registered method whose argument type is not a     *)
(* pointer, with a payload that decodes into that type, has its handler    *)
(* method invoked with the decoded value and is answered with a success    *)
(* response that carries the reply.                                        *)
(***************************************************************************)
C27_ValueArgumentIsDispatched ==
    \A i \in DOMAIN reqs :
        (/\ callPc # "idle"
         /\ Done(i)
         /\ Registered(m, reqs[i])
         /\ Target(m, reqs[i]).ArgType.kind # "ptr"
         /\ Decodable(codec, m, reqs[i])) =>
            /\ \E k \in DOMAIN calls :
                  /\ calls[k].at = i
                  /\ calls[k].call.arg =
                        ArgOf(codec, reqs[i].params, Target(m, reqs[i]).ArgType).v
            /\ replies[i].errCode = Success
            /\ replies[i].result = Encoded(codec, Outcome(codec, m, reqs[i]).reply)

\* the frame read last on the first connection holds calls of Int.Sum only,
\* for a registered Int
SumFrame ==
    /\ connPc = "call"
    /\ reqs # <<>>
    /\ \A i \in DOMAIN reqs : reqs[i].method = <<"Int", Dot, "Sum">> /\ Succeeds(reqs[i])

(***************************************************************************)
(* C28: whatever happens on the second connection (frames, an I/O error,   *)
(* a panic of Server.call), a frame of Int.Sum calls read on the first     *)
(* connection is answered there with a frame, and a frame written there    *)
(* for such a frame holds the replies of its requests.                     *)
(***************************************************************************)
C28_ConnectionsAreIndependent ==
    /\ SumFrame ~> (sent.n > 0 /\ sent.for = recv.n)
    /\ [][(SumFrame /\ sent'.n = sent.n + 1) =>
             /\ Len(sent'.body.items) >= Len(reqs)
             /\ \A i \in DOMAIN reqs :
                   sent'.body.items[Len(sent'.body.items) - Len(reqs) + i].result =
                       Encoded(codec, Outcome(codec, m, reqs[i]).reply)]_vars

\* ServeHTTP is under a panic of s.call
HttpPanicking == httpPc = "call" /\ callPc = "panicked"

(***************************************************************************)
(* C29: a panic under ServeHTTP, whether its value is an error (a runtime  *)
(* error of the pass) or not (a handler's panic("...")), is recovered by   *)
(* ServeHTTP: the step that follows it is ServeHTTP's return with no body  *)
(* written for that request, and after it the server takes the next HTTP   *)
(* request.                                                                *)
(***************************************************************************)
C29_HttpPanicIsRecovered ==
    /\ [](HttpPanicking => panicVal \in {"error", "string"})
    /\ [][HttpPanicking =>
             /\ httpPc' = "done"
             /\ callPc' = "idle"
             /\ httpResp'.body = EmptyBody
             /\ httpReq' = httpReq]_vars
    /\ [](httpPc = "done" => (callPc = "idle" /\ ENABLED DoServeHTTP))

\* a POST request is answered with the replies of s.call after a handler's
\* panic whose value is not an error was recovered
C29_Witness ==
    /\ panicVal = "string"
    /\ httpPc = "done"
    /\ httpReq.method = "POST"
    /\ httpDecoded
    /\ httpResp.body # EmptyBody
    /\ httpResp.body.items # <<>>
    /\ \A i \in DOMAIN httpResp.body.items : httpResp.body.items[i].errCode = Success

\* Call has been handed a response frame that ReadResponse decodes
CallGotFrame ==
    /\ cliOp = "call"
    /\ cliPc \in {"done", "panicked"}
    /\ wire \notin {NoTraffic, RequestSent, Silent, Broken, ClosedConn}
    /\ ~ReadResponse(codec, wire).err

(***************************************************************************)
(* C30: Call never indexes a missing response, and it returns nil only     *)
(* when the response frame held exactly one response: for a frame of no    *)
(* response or of several it returns an error.                             *)
(***************************************************************************)
C30_CallWantsExactlyOneResponse ==
    CallGotFrame =>
        /\ cliPc = "done"
        /\ callErr = NoError => Len(ReadResponse(codec, wire).resps) = 1

\* Call returns nil for a frame of several responses
C30_SeveralResponsesAccepted ==
    /\ CallGotFrame
    /\ cliPc = "done"
    /\ callErr = NoError
    /\ Len(ReadResponse(codec, wire).resps) > 1

(***************************************************************************)
(* C31: a RegisterName whose method name is not a method of the handler,   *)
(* or names a method that fails the criteria, returns to its caller (it    *)
(* does not panic) and leaves the registry as it was, whether the          *)
(* handler's service is in the registry or not.                            *)
(***************************************************************************)
C31_UnsuitableNameChangesNothing ==
    [][(Called("RegisterName")
          /\ ~HasCriteriaMethod(HandlerOf(regRet'.val), regRet'.method)) =>
            /\ regRet'.st # "panic"
            /\ m' = m]_vars
\* a Call or CallBatch is inside callTcp on a connection Close() has closed
CallOnClosed == connClosed /\ cliPc \in {"select", "read"}

\* the step is a call of Close, the first to find the client as it is
CloseCalled == closeSt' # closeSt /\ closeSt' # "none"

(***************************************************************************)
(* C32: once Close() was called on a client that holds a connection, each  *)
(* later Call and CallBatch returns, and returns an error, and the client  *)
(* dials no more and holds the same, closed, connection; a Close() on a    *)
(* client without a connection changes nothing of the client; no Close()   *)
(* changes the field tcpConn.                                              *)
(***************************************************************************)
C32_ClosedClientFailsWithoutRedial ==
    /\ CallOnClosed ~> (cliPc = "done" /\ callErr.isErr)
    /\ [][(CallOnClosed /\ cliPc' \notin {"select", "read"}) =>
              (cliPc' = "done" /\ callErr'.isErr)]_vars
    /\ [][(connClosed /\ nCalls' = nCalls + 1 /\ cliPc' = "done") => callErr'.isErr]_vars
    /\ [][connClosed => (tcpConn' = tcpConn /\ dials' = dials /\ connClosed')]_vars
    /\ [][CloseCalled =>
            /\ tcpConn' = tcpConn
            /\ dials' = dials
            /\ tcpConn = NilConn =>
                  /\ ~connClosed'
                  /\ UNCHANGED <<wire, cliPc, cliOp, callErr, replyVal, nCalls>>]_vars

\* the client's first call dialed and got its reply's frame, Close() was
\* called, and the second call has returned an I/O error from the closed
\* connection, the only one dialed
C32_Witness ==
    /\ connClosed
    /\ nCalls = 2
    /\ cliOp = "call"
    /\ cliPc = "done"
    /\ wire = ClosedConn
    /\ callErr = IOErr
    /\ tcpConn = 1
    /\ dials = 1

====
